---- MODULE Spec2Model ----
(***************************************************************************)
(* A model of MedAssist: the stock-price forecasting pipeline              *)
(*   src/stock_price_prediction_complete.py  (SlidingWindowGenerator,      *)
(*       CNNStockPredictor, ModelEvaluator, main)                          *)
(*   src/stock_prediction_demo.py            (the demo's generator,        *)
(*       windows, split, normalisation and prediction)                     *)
(* and the web application                                                 *)
(*   src/app.py                              (signup, login, logout and    *)
(*       the routes behind the login)                                      *)
(*                                                                         *)
(* Several specifications share the module:                                *)
(*   SpecWin     - SlidingWindowGenerator alone, over every small series   *)
(*                 and configuration, followed by the chronological split; *)
(*   SpecEval    - ModelEvaluator alone, over every sequence of            *)
(*                 calculate_metrics calls;                                *)
(*   SpecDemo    - the demo's create_simple_windows and                    *)
(*                 simple_prediction_model next to the generator with      *)
(*                 stride 1;                                               *)
(*   SpecMetrics - one calculate_metrics call on every pair of small       *)
(*                 arrays;                                                 *)
(*   SpecGen     - the two synthetic generators, called in any order;      *)
(*   SpecNorm    - the two normalisations on every small series;           *)
(*   Spec        - main(): construct, fetch, normalise, window, split,     *)
(*                 train, and the evaluation loop over the companies;      *)
(*   SpecMismatch - main() with components constructed with different      *)
(*                 prediction_steps;                                       *)
(*   SpecSignup  - signup and login requests of two browsers, interleaved  *)
(*                 statement by statement;                                 *)
(*   SpecApp     - login, logout and the protected routes, requested by    *)
(*                 two browsers.                                           *)
(* Arithmetic on array elements is binary floating point of reduced        *)
(* precision, rounded as float64 rounds.                                   *)
(* main() passes the literals window_size=100, overlap=90,                 *)
(* prediction_steps=10; the model takes the configuration as a parameter   *)
(* drawn from small sets so that the windowing arithmetic is exercised.    *)
(***************************************************************************)
EXTENDS Integers, Sequences, FiniteSets, TLC

\* ------------------------------------------------------------------ bounds
MaxLen == 6          \* longest enumerated series (SpecWin)
MaxWindow == 3       \* largest window_size / overlap argument
MaxSteps == 2        \* largest prediction_steps argument

\* the values a series element takes in the enumerated inputs
SampleValues == {0, 1}

None == "None"

\* ------------------------------------------------------- python primitives
Min(a, b) == IF a < b THEN a ELSE b
Max(a, b) == IF a > b THEN a ELSE b

\* Python's seq[a:b] for 0 <= a: both ends are clamped to the sequence, so a
\* slice that runs past the end is silently shorter than b - a.
PySlice(seq, a, b) ==
    LET lo == Min(a, Len(seq))
        hi == Min(b, Len(seq))
    IN  IF hi <= lo THEN << >> ELSE SubSeq(seq, lo + 1, hi)

\* Python's range(start, stop, step) as the sequence of its elements;
\* step = 0 raises ValueError and is handled by the caller.
RECURSIVE PyRange(_, _, _)
PyRange(start, stop, step) ==
    IF step > 0
    THEN IF start < stop THEN <<start>> \o PyRange(start + step, stop, step) ELSE << >>
    ELSE IF step < 0 /\ start > stop
         THEN <<start>> \o PyRange(start + step, stop, step)
         ELSE << >>

\* ------------------------------------------------- SlidingWindowGenerator
\* SlidingWindowGenerator.__init__: stores the arguments and the derived
\* stride; it validates nothing and cannot fail.
NewGenerator(w, o, p) ==
    [window_size |-> w, overlap |-> o, stride |-> w - o, prediction_steps |-> p]

\* WindowStarts with a seeded fault: the stop without + 1, without
\* prediction_steps, with step 1, and without window_size
WindowStarts_NoPlusOne(gen, n) ==
    PyRange(0, n - gen.window_size - gen.prediction_steps, gen.stride)
WindowStarts_NoTarget(gen, n) ==
    PyRange(0, n - gen.window_size + 1, gen.stride)
WindowStarts_UnitStride(gen, n) ==
    PyRange(0, n - gen.window_size - gen.prediction_steps + 1, 1)
WindowStarts_NoWindow(gen, n) ==
    PyRange(0, n - gen.prediction_steps + 1, gen.stride)

\* the start indices the for loop visits:
\*   range(0, len(data) - window_size - prediction_steps + 1, stride)
WindowStarts(gen, n) ==
    PyRange(0, n - gen.window_size - gen.prediction_steps + 1, gen.stride)

\* window = data[i : i + window_size]
WindowAt(gen, data, i) == PySlice(data, i, i + gen.window_size)
\* target = data[i + window_size : i + window_size + prediction_steps]
TargetAt(gen, data, i) ==
    PySlice(data, i + gen.window_size, i + gen.window_size + gen.prediction_steps)

\* X.reshape(X.shape[0], X.shape[1], 1): every scalar becomes a one-element
\* feature vector (samples, timesteps, features)
Reshape3(X) == [k \in 1..Len(X) |-> [j \in 1..Len(X[k]) |-> <<X[k][j]>>]]
\* the scalars of one reshaped window, in order
Squeeze(window) == [j \in 1..Len(window) |-> window[j][1]]

\* create_sliding_windows(data).  outcome:
\*   "insufficient" - the guard printed "Insufficient data" and returned
\*                    (np.array([]), np.array([]));
\*   "ValueError"   - range() with stride 0;
\*   "IndexError"   - X.reshape(X.shape[0], X.shape[1], 1) on an empty X
\*                    (stride < 0 leaves the loop body unexecuted);
\*   "ok"           - X, y returned.
\* starts records the loop variable i of each appended pair.
create_sliding_windows(gen, data) ==
    LET n == Len(data)
        st == WindowStarts(gen, n)
        empty == [X |-> << >>, y |-> << >>, starts |-> << >>]
    IN  IF n < gen.window_size + gen.prediction_steps
        THEN [outcome |-> "insufficient", printed |-> "Insufficient data"] @@ empty
        ELSE IF gen.stride = 0
        THEN [outcome |-> "ValueError", printed |-> None] @@ empty
        ELSE IF Len(st) = 0
        THEN [outcome |-> "IndexError", printed |-> None] @@ empty
        ELSE [outcome |-> "ok", printed |-> "Created sliding windows",
              X |-> Reshape3([k \in 1..Len(st) |-> WindowAt(gen, data, st[k])]),
              y |-> [k \in 1..Len(st) |-> TargetAt(gen, data, st[k])],
              starts |-> st]

\* --------------------------------------------------- chronological split
\* main(): split_idx = int(0.8 * len(X_train))
SplitNum == 8
SplitDen == 10
\* demo main(): split_idx = int(0.7 * len(X)); the double product truncates
\* to floor(7n/10) for every n < 90
DemoSplitNum == 7

SplitIdx(num, n) == (num * n) \div SplitDen

\* SplitHead with a seeded fault: the last idx elements
SplitHead_Suffix(seq, idx) == PySlice(seq, Len(seq) - idx, Len(seq))

\* X[:split_idx]
SplitHead(seq, idx) == PySlice(seq, 0, idx)
\* X[split_idx:]
SplitTail(seq, idx) == PySlice(seq, idx, Len(seq))

\* ----------------------------------------------------------------- numbers
\* Array elements and metrics are rationals [n, d] with d > 0 in lowest terms;
\* numpy's results of dividing by zero are Inf = [1, 0] and NaN = [0, 0], and
\* nan stays nan in every operation.  The R operators are exact; the F
\* operators below round as float64 does.
RECURSIVE GCD(_, _)
GCD(a, b) == IF b = 0 THEN a ELSE GCD(b, a % b)
Abs(x) == IF x < 0 THEN -x ELSE x
Rat(n, d) ==
    LET g == GCD(Abs(n), Abs(d))
        sg == IF d < 0 THEN -1 ELSE 1
    IN  IF g = 0 THEN [n |-> 0, d |-> 0] ELSE [n |-> sg * (n \div g), d |-> sg * (d \div g)]
Int2Rat(k) == [n |-> k, d |-> 1]
Inf == [n |-> 1, d |-> 0]
NaN == [n |-> 0, d |-> 0]
RAdd(a, b) ==
    IF a.d = 0 \/ b.d = 0 THEN Rat(a.n * b.d + b.n * a.d, 0)
    ELSE LET g == GCD(a.d, b.d)
         IN  Rat(a.n * (b.d \div g) + b.n * (a.d \div g), (a.d \div g) * b.d)
RNeg(a) == [n |-> -(a.n), d |-> a.d]
RSub(a, b) == RAdd(a, RNeg(b))
RMul(a, b) == Rat(a.n * b.n, a.d * b.d)
RAbs(a) == [n |-> Abs(a.n), d |-> a.d]
RLess(a, b) == a.n * b.d < b.n * a.d
\* numpy's a / b under warnings.filterwarnings('ignore'): x/0 is inf (or nan
\* for 0/0) and no exception is raised
RDiv(a, b) ==
    IF a = NaN \/ b = NaN THEN NaN
    ELSE IF b.n = 0 THEN (IF a.n = 0 THEN NaN ELSE Inf)
    ELSE Rat(a.n * b.d, a.d * b.n)

\* ------------------------------------------------------------------ floats
\* The arrays are float64: every arithmetic result is rounded to the nearest
\* value with a 53-bit significand, ties to even.  The model rounds the same
\* way to MantissaBits bits, so that the results of rounding (a sum of equal
\* terms that is not a multiple of the term, a product that misses 1 by one
\* unit in the last place) occur among small numbers.  The exponent range is
\* not limited.
MantissaBits == 4

RECURSIVE Pow2(_)
Pow2(k) == IF k <= 0 THEN 1 ELSE 2 * Pow2(k - 1)
MantissaTop == Pow2(MantissaBits)
MantissaLow == Pow2(MantissaBits - 1)
PowersOf2 == {Pow2(k) : k \in 0..30}

\* the element of a one-element set: Only({F(x) : x \in {e}}) is F(e) with e
\* evaluated once
Only(S) == CHOOSE x \in S : TRUE

\* n / d > 0 scaled by a power of two into [MantissaLow, MantissaTop)
RECURSIVE FlNorm(_, _, _)
FlNorm(n, d, e) ==
    IF n >= MantissaTop * d THEN FlNorm(n, 2 * d, e + 1)
    ELSE IF n < MantissaLow * d THEN FlNorm(2 * n, d, e - 1)
    ELSE [n |-> n, d |-> d, e |-> e]

\* n / d rounded to the nearest integer, ties to the even one
RoundHalfEven(n, d) ==
    Only({IF 2 * (n - fl * d) < d THEN fl
          ELSE IF 2 * (n - fl * d) > d THEN fl + 1
          ELSE IF fl % 2 = 0 THEN fl ELSE fl + 1 : fl \in {n \div d}})

\* m * 2^e
Scaled(m, e) == IF e >= 0 THEN [n |-> m * Pow2(e), d |-> 1] ELSE Rat(m, Pow2(-e))

\* the float nearest to the rational q; inf and nan stay, and so does a
\* rational n / 2^k whose numerator fits the significand
Fl(q) ==
    IF q.d = 0 \/ q.n = 0 THEN q
    ELSE IF q.d \in PowersOf2 /\ Abs(q.n) < MantissaTop THEN q
    ELSE Only({Scaled((IF q.n < 0 THEN -1 ELSE 1) * RoundHalfEven(r.n, r.d), r.e) :
               r \in {FlNorm(Abs(q.n), q.d, 0)}})

FAdd(a, b) == Fl(RAdd(a, b))
FSub(a, b) == Fl(RSub(a, b))
FMul(a, b) == Fl(RMul(a, b))
FDiv(a, b) == Fl(RDiv(a, b))

\* n / d > 0 scaled by a power of four into [MantissaLow^2, MantissaTop^2)
RECURSIVE SqrtNorm(_, _, _)
SqrtNorm(n, d, e) ==
    IF n >= MantissaTop * MantissaTop * d THEN SqrtNorm(n, 4 * d, e + 1)
    ELSE IF n < MantissaLow * MantissaLow * d THEN SqrtNorm(4 * n, d, e - 1)
    ELSE [n |-> n, d |-> d, e |-> e]

\* the integer nearest to the square root of n / d in [MantissaLow^2, MantissaTop^2)
RoundSqrt(n, d) ==
    Only({IF 4 * n > (2 * fl + 1) * (2 * fl + 1) * d THEN fl + 1 ELSE fl :
          fl \in {m \in MantissaLow..(MantissaTop - 1) :
                     m * m * d <= n /\ (m + 1) * (m + 1) * d > n}})

\* np.sqrt: the float nearest to the square root; sqrt(inf) = inf, sqrt(nan) = nan
FSqrt(q) ==
    IF q.d = 0 \/ q.n <= 0 THEN q
    ELSE Only({Scaled(RoundSqrt(r.n, r.d), r.e) : r \in {SqrtNorm(q.n, q.d, 0)}})

\* np.sum of fewer than eight elements: added one after the other
RECURSIVE FSum(_)
FSum(seq) ==
    IF seq = << >> THEN Int2Rat(0)
    ELSE FAdd(FSum(SubSeq(seq, 1, Len(seq) - 1)), seq[Len(seq)])

\* np.mean over a sequence that may hold inf or nan: nan wins, then inf
FMean(seq) ==
    IF \E k \in 1..Len(seq) : seq[k] = NaN THEN NaN
    ELSE IF \E k \in 1..Len(seq) : seq[k] = Inf THEN Inf
    ELSE FDiv(FSum(seq), Int2Rat(Len(seq)))

\* ----------------------------------------------------------------- arrays
\* An ndarray handed to the evaluator: ndim and its rows (ndim = 2) or its
\* elements (ndim = 1).  NoArray is Python's None.
Array1(elems) == [kind |-> "ndarray", ndim |-> 1, v |-> elems]
Array2(rows) == [kind |-> "ndarray", ndim |-> 2, v |-> rows]
NoArray == [kind |-> "None", ndim |-> 0, v |-> << >>]

RECURSIVE Concat(_)
Concat(rows) == IF rows = << >> THEN << >> ELSE Head(rows) \o Concat(Tail(rows))

\* if a.ndim > 1: a = a.flatten()   (row-major)
Flatten(a) == IF a.ndim > 1 THEN Concat(a.v) ELSE a.v

\* ---------------------------------------------------------- ModelEvaluator
\* StoreResult with a seeded fault: the mapping is replaced
StoreResult_Replace(res, company_name, metrics) ==
    [c \in {company_name} |-> metrics]

\* self.results[company_name] = metrics
StoreResult(res, company_name, metrics) ==
    [c \in DOMAIN res \cup {company_name} |->
        IF c = company_name THEN metrics ELSE res[c]]

\* the metrics dict from the errors y_true - y_pred, the mean and the sum of
\* their squares, and the sum of the squared deviations of y_true
MetricsOf(t, err, mse, ss_res, ss_tot, company_name) ==
    [company |-> company_name,
     mse |-> mse,
     rmse |-> FSqrt(mse),
     mae |-> FMean([k \in 1..Len(t) |-> RAbs(err[k])]),
     mape |-> FMul(FMean([k \in 1..Len(t) |-> RAbs(FDiv(err[k], t[k]))]), Int2Rat(100)),
     r2_score |-> IF ss_tot # Int2Rat(0)
                  THEN FSub(Int2Rat(1), FDiv(ss_res, ss_tot))
                  ELSE Int2Rat(0),
     n_samples |-> Len(t)]

\* np.sum((y_true - np.mean(y_true)) ** 2)
SumSquaredDeviations(t) ==
    Only({FSum([k \in 1..Len(t) |-> Only({FMul(dev, dev) : dev \in {FSub(t[k], mean_t)}})]) :
          mean_t \in {FMean(t)}})

\* mean_squared_error and np.sum((y_true - y_pred) ** 2) over the squared
\* errors: the same additions, the mean dividing their sum by n
SquaredErrorSums(sq) ==
    Only({[sum |-> s, mean |-> FDiv(s, Int2Rat(Len(sq)))] : s \in {FSum(sq)}})

\* the metrics dict of calculate_metrics for flattened, equally long,
\* non-empty y_true and y_pred
ComputeMetrics(t, p, company_name) ==
    Only({Only({MetricsOf(t, err, se.mean, se.sum, ss_tot, company_name) :
                se \in {SquaredErrorSums([k \in 1..Len(t) |-> FMul(err[k], err[k])])},
                ss_tot \in {SumSquaredDeviations(t)}}) :
          err \in {[k \in 1..Len(t) |-> FSub(t[k], p[k])]}})

NoMetrics == [company |-> None, mse |-> NaN, rmse |-> NaN,
              mae |-> NaN, mape |-> NaN, r2_score |-> NaN, n_samples |-> 0]

\* calculate_metrics(y_true, y_pred, company_name) on results mapping res:
\*   "AttributeError" - y_pred is None (y_pred.ndim);
\*   "ValueError"     - sklearn's mean_squared_error on arrays of different
\*                      or zero length, before anything is stored;
\*   "returned"       - the metrics, also stored under company_name.
calculate_metrics(res, y_true, y_pred, company_name) ==
    IF y_true.kind = "None" \/ y_pred.kind = "None"
    THEN [outcome |-> "AttributeError", ret |-> NoMetrics, results |-> res]
    ELSE IF Len(Flatten(y_true)) # Len(Flatten(y_pred)) \/ Len(Flatten(y_true)) = 0
    THEN [outcome |-> "ValueError", ret |-> NoMetrics, results |-> res]
    ELSE Only({[outcome |-> "returned", ret |-> m,
                results |-> StoreResult(res, company_name, m)] :
               m \in {ComputeMetrics(Flatten(y_true), Flatten(y_pred), company_name)}})

\* -------------------------------------------------------- StockDataFetcher
\* self.symbols, in the dict's insertion order: company -> ticker
Companies == <<"INFY", "TCS", "CIPLA">>
Labels == {Companies[k] : k \in 1..Len(Companies)}
Ticker(company) == company \o ".NS"

MaxFetchLen == 3     \* most rows a fetch returns
SimPoints == 5       \* rows of a simulated series

\* what yfinance hands back: an exception, no rows, or rows whose Close
\* column is one of the pool's series
Ramp(n) == [k \in 1..n |-> Int2Rat(k)]
FetchPool == {Ramp(n) : n \in 1..MaxFetchLen}
FetchOutcomes ==
    {[status |-> "error", close |-> << >>], [status |-> "empty", close |-> << >>]}
    \cup {[status |-> "rows", close |-> c] : c \in FetchPool}

\* fetch_stock_data's return value: the rows, or an empty frame after an
\* exception or an empty answer
fetch_stock_data(outcome) == IF outcome.status = "rows" THEN outcome.close ELSE << >>

\* ---------------------------------------------------------------- np.random
\* numpy's global generator: np.random.seed(42) puts it at the start of the
\* stream of seed 42, and every draw takes the stream's next value.  Before
\* the first seed call it runs on the operating system's entropy.
Unseeded == [seed |-> None, pos |-> 0]
Seeded42 == [seed |-> "42", pos |-> 0]
Advance(rng, k) == [rng EXCEPT !.pos = @ + k]

\* The standard normal variates behind np.random.normal, by position in the
\* stream.  A modelled series has a handful of points where a real one has
\* tens of thousands, so the variates are taken far in the tails: the walk
\* then reaches its floor within the modelled points as the real one does.
TailDraw == 128
StreamLen == 2 * SimPoints
Cycle(k) == ((k % 3) - 1) * TailDraw
Streams ==
    {[k \in 0..(StreamLen - 1) |-> z] : z \in {-TailDraw, 0, TailDraw}}
    \cup {[k \in 0..(StreamLen - 1) |-> Cycle(k)], [k \in 0..(StreamLen - 1) |-> Cycle(k + 1)]}

\* the stream of seed 42 of the runs that do not enumerate it
DefaultStream == [k \in 0..(StreamLen - 1) |-> Cycle(k)]

\* np.random.normal(0, sigma, n)[i] when the n draws start at position at
Normal(stream, at, i, sigma) == FAdd(Int2Rat(0), FMul(Fl(sigma), Int2Rat(stream[at + i])))

\* np.linspace(start, stop, n)[i]: i * step + start, the last element being
\* stop itself
Linspace(start, stop, n, i) ==
    IF n = 1 THEN Fl(start)
    ELSE IF i = n - 1 THEN Fl(stop)
    ELSE FAdd(FMul(Int2Rat(i), FDiv(FSub(Fl(stop), Fl(start)), Int2Rat(n - 1))), Fl(start))

\* ------------------------------------------------------ synthetic series
\* base_prices.get(symbol, 1000)
base_price(symbol) ==
    CASE symbol = "INFY.NS" -> 1200
      [] symbol = "TCS.NS" -> 2300
      [] symbol = "CIPLA.NS" -> 450
      [] OTHER -> 1000

\* Clamp with a seeded fault: the new price is taken as it is
Clamp_None(new_price, base) == new_price

\* max(new_price, base_price * 0.8)
Clamp(new_price, base) ==
    LET floor == FMul(Int2Rat(base), Fl(Rat(8, 10)))
    IN  IF RLess(new_price, floor) THEN floor ELSE new_price

\* prices = [base_price]; for i in range(1, n): new_price = prices[-1] *
\* (1 + change[i]); prices.append(max(new_price, base_price * 0.8))
RECURSIVE RandomWalkFrom(_, _, _, _)
RandomWalkFrom(prices, change, base, n) ==
    IF Len(prices) >= n THEN prices
    ELSE \* the list holds prices[0..i-1], so i = Len(prices)
         LET new_price == FMul(prices[Len(prices)],
                               FAdd(Int2Rat(1), change[Len(prices)]))
         IN  RandomWalkFrom(Append(prices, Clamp(new_price, base)), change, base, n)
RandomWalk(change, base, n) == RandomWalkFrom(<<Int2Rat(base)>>, change, base, n)

\* _generate_simulated_data's prices over n timestamps: price_changes are the
\* stream's first n draws, noise its next n
SimulatedPrices(stream, symbol, n) ==
    RandomWalk([i \in 1..(n - 1) |->
                   FAdd(FAdd(Normal(stream, 0, i, Rat(2, 1000)),
                             Linspace(Rat(-1, 10), Rat(1, 10), n, i)),
                        Normal(stream, n, i, Rat(1, 1000)))],
               base_price(symbol), n)

\* the date range of get_training_data and of get_testing_data
TrainRange == [start_date |-> "2014-07-01", end_date |-> "2014-10-14"]
TestRange == [start_date |-> "2014-10-16", end_date |-> "2014-11-28"]

\* all_timestamps: the trading minutes of the business days from start_date
\* to end_date, here the first SimPoints of them
all_timestamps(range) ==
    [k \in 1..SimPoints |-> [from |-> range.start_date, minute |-> k]]

\* the three companies' prices on the default stream, computed once
DefaultSeries ==
    (Ticker(Companies[1]) :> SimulatedPrices(DefaultStream, Ticker(Companies[1]), SimPoints))
    @@ (Ticker(Companies[2]) :> SimulatedPrices(DefaultStream, Ticker(Companies[2]), SimPoints))
    @@ (Ticker(Companies[3]) :> SimulatedPrices(DefaultStream, Ticker(Companies[3]), SimPoints))

\* _generate_simulated_data(symbol, start_date, end_date): the frame's index
\* and its Close column (Open is the same list; High, Low and Volume take
\* the stream's next 3n draws and are not read by the pipeline)
generate_simulated_data(stream, symbol, range) ==
    [index |-> all_timestamps(range),
     close |-> IF stream = DefaultStream /\ symbol \in DOMAIN DefaultSeries
               THEN DefaultSeries[symbol]
               ELSE SimulatedPrices(stream, symbol, Len(all_timestamps(range)))]

\* generate_demo_stock_data's prices: price_changes are the stream's first
\* n_days draws, there is no noise term
DemoPrices(stream, n_days, base) ==
    RandomWalk([i \in 1..(n_days - 1) |->
                   FAdd(Normal(stream, 0, i, Rat(2, 100)),
                        Linspace(Rat(-5, 100), Rat(5, 100), n_days, i))],
               base, n_days)

\* generate_demo_stock_data(symbol, n_days, base_price) called when the clock
\* reads clock: timestamps = date_range(start=now - n_days days, periods=
\* n_days, freq='D'); the symbol is not used
generate_demo_stock_data(stream, clock, symbol, n_days, base) ==
    [index |-> [k \in 1..n_days |-> [from |-> clock, day |-> (k - 1) - n_days]],
     close |-> DemoPrices(stream, n_days, base)]

\* WithFallback with a seeded fault: the fetched frame is used as it is
WithFallback_None(fetched, stream, symbol, range) == fetched

\* get_training_data / get_testing_data: the fetched rows, or the simulated
\* series of the date range when the fetch came back empty
WithFallback(fetched, stream, symbol, range) ==
    IF fetched = << >> THEN generate_simulated_data(stream, symbol, range).close
    ELSE fetched

\* the generator after get_training_data / get_testing_data handled one
\* symbol: reseeded and 5n draws on when the simulated series was generated
RngAfterFetch(rng, fetched) ==
    IF fetched = << >> THEN Advance(Seeded42, 5 * SimPoints) ELSE rng

\* --------------------------------------------------------------- Normalizer
\* MinMaxScaler(feature_range=(0, 1)).fit on one column: scale_ = 1 /
\* (data_max - data_min), a zero range being replaced by 1 (sklearn's
\* _handle_zeros_in_scale), and min_ = 0 - data_min * scale_
SeqMin(seq) == CHOOSE x \in {seq[k] : k \in 1..Len(seq)} :
                   \A k \in 1..Len(seq) : ~RLess(seq[k], x)
SeqMax(seq) == CHOOSE x \in {seq[k] : k \in 1..Len(seq)} :
                   \A k \in 1..Len(seq) : ~RLess(x, seq[k])
ScalerOf(data_min, data_max, scale) ==
    [fitted |-> TRUE, data_min |-> data_min, data_max |-> data_max,
     scale_ |-> scale, min_ |-> FSub(Int2Rat(0), FMul(data_min, scale))]
ScaleOf(data_range) ==
    FDiv(Int2Rat(1), IF data_range = Int2Rat(0) THEN Int2Rat(1) ELSE data_range)
FitScaler(prices) ==
    Only({ScalerOf(data_min, data_max, ScaleOf(FSub(data_max, data_min))) :
          data_min \in {SeqMin(prices)}, data_max \in {SeqMax(prices)}})
\* Transform with a seeded fault: the values are scaled and not shifted
Transform_ScaleOnly(sc, prices) ==
    [k \in 1..Len(prices) |-> FMul(prices[k], sc.scale_)]

\* MinMaxScaler.transform: X *= scale_; X += min_
Transform(sc, prices) ==
    [k \in 1..Len(prices) |-> FAdd(FMul(prices[k], sc.scale_), sc.min_)]
NoScaler == [fitted |-> FALSE, data_min |-> Int2Rat(0), data_max |-> Int2Rat(0),
             scale_ |-> Int2Rat(0), min_ |-> Int2Rat(0)]

\* preprocess_data(data) on the fetcher whose self.scaler is sc: the returned
\* (scaled, original, third) and self.scaler afterwards.  An empty frame
\* returns two empty arrays and None and leaves self.scaler as it was;
\* otherwise self.scaler is refitted and returned itself.
preprocess_data(sc, prices) ==
    IF prices = << >>
    THEN [outcome |-> "returned", scaled |-> << >>, original |-> << >>,
          third |-> None, scaler |-> sc]
    ELSE Only({[outcome |-> "returned", scaled |-> Transform(sc2, prices),
                original |-> prices, third |-> "self.scaler", scaler |-> sc2] :
               sc2 \in {FitScaler(prices)}})

\* the demo's main(), lines 121-123: min_price, max_price = prices.min(),
\* prices.max(); (prices - min_price) / (max_price - min_price).  The
\* reductions raise ValueError on an array without elements.
DemoNormalize(prices) ==
    IF prices = << >>
    THEN [outcome |-> "ValueError", scaled |-> << >>]
    ELSE Only({[outcome |-> "returned",
                scaled |-> [k \in 1..Len(prices) |->
                               FDiv(FSub(prices[k], min_price), price_range)]] :
               min_price \in {SeqMin(prices)},
               price_range \in {FSub(SeqMax(prices), SeqMin(prices))}})

\* -------------------------------------------------------- CNNStockPredictor
\* CNNStockPredictor.__init__: self.model = None
NewPredictor(w, p) ==
    [window_size |-> w, prediction_steps |-> p, model |-> "None",
     input_len |-> 0, weights |-> 0, fitted |-> FALSE]

\* build_model(input_shape): the network, with its output layer of
\* prediction_steps units.  The layer stack accepts main()'s input shape
\* (100, 1), so building succeeds.
build_model(pred, input_len) == [pred EXCEPT !.model = "built", !.input_len = input_len]

\* what fitting leaves in the network: the model is opaque, its forecasts are
\* decided by the weights training arrives at
ModelWeights == {0, 1}

\* train_model(X_train, y_train, ...): "not_built" when self.model is None
\* (prints and returns None), otherwise model.fit.  fit raises on an empty
\* training set or (library permitting) completes; targets of another width
\* than the output layer make it raise, unless one of the two widths is 1 and
\* the loss broadcasts (again library permitting).
TrainOutcomes(pred, X_train, y_train) ==
    IF pred.model = "None" THEN {"not_built"}
    ELSE IF Len(X_train) = 0 THEN {"raised", "ok"}
    ELSE IF Len(y_train[1]) = pred.prediction_steps THEN {"ok"}
    ELSE IF Len(y_train[1]) = 1 \/ pred.prediction_steps = 1 THEN {"raised", "ok"}
    ELSE {"raised"}

\* predict with a seeded fault: the output layer has one unit
predict_OneStep(pred, X) ==
    IF pred.model = "None" THEN NoArray
    ELSE Array2([k \in 1..Len(X) |->
                    <<FAdd(X[k][Len(X[k])][1], Int2Rat(pred.weights))>>])

\* predict(X): None when self.model is None, else one forecast of
\* prediction_steps values per window: the window's last value plus the
\* learnt offset
predict(pred, X) ==
    IF pred.model = "None" THEN NoArray
    ELSE Array2([k \in 1..Len(X) |->
                    [j \in 1..pred.prediction_steps |->
                        FAdd(X[k][Len(X[k])][1], Int2Rat(pred.weights))]])

\* Python's min(keys, key=...) over keys in iteration order: the first key is
\* the candidate, and a later key replaces it only when its rmse is strictly
\* less (a comparison with nan is false)
RECURSIVE MinByRmse(_, _)
MinByRmse(res, keys) ==
    IF Len(keys) = 1 THEN keys[1]
    ELSE Only({IF RLess(res[keys[Len(keys)]].rmse, res[best].rmse)
               THEN keys[Len(keys)] ELSE best :
               best \in {MinByRmse(res, SubSeq(keys, 1, Len(keys) - 1))}})

\* MinByRmse with a seeded fault: a later key also replaces the candidate
\* when their rmse are equal
RECURSIVE MinByRmse_LastTie(_, _)
MinByRmse_LastTie(res, keys) ==
    IF Len(keys) = 1 THEN keys[1]
    ELSE Only({IF ~RLess(res[best].rmse, res[keys[Len(keys)]].rmse)
               THEN keys[Len(keys)] ELSE best :
               best \in {MinByRmse_LastTie(res, SubSeq(keys, 1, Len(keys) - 1))}})

\* BestCompany with the seeded fault of MinByRmse_LastTie
BestCompany_LastTie(res, order) ==
    MinByRmse_LastTie(res, SelectSeq(order, LAMBDA c : c \in DOMAIN res))

\* min(evaluator.results.keys(), key=lambda x: evaluator.results[x]['rmse']):
\* the dict iterates in insertion order, which in main() is the order of
\* self.symbols restricted to the companies evaluated
BestCompany(res, order) ==
    MinByRmse(res, SelectSeq(order, LAMBDA c : c \in DOMAIN res))

\* ----------------------------------------------------------------- the demo
\* the literals of the demo's main(): create_simple_windows(normalized_prices,
\* window_size=10, prediction_steps=3), if len(X) < 10: continue, and the
\* for step in range(3) of simple_prediction_model
DemoWindowSize == 10
DemoPredictionSteps == 3
DemoMinPairs == 10
DemoForecastSteps == 3

\* create_simple_windows with a seeded fault: the loop advances by window_size
create_simple_windows_Disjoint(data, window_size, prediction_steps) ==
    LET st == PyRange(0, Len(data) - window_size - prediction_steps + 1, window_size)
    IN  [outcome |-> "ok",
         X |-> [k \in 1..Len(st) |-> PySlice(data, st[k], st[k] + window_size)],
         y |-> [k \in 1..Len(st) |->
                   PySlice(data, st[k] + window_size,
                           st[k] + window_size + prediction_steps)]]

\* create_simple_windows(data, window_size, prediction_steps): one pair for
\* every i of range(len(data) - window_size - prediction_steps + 1)
create_simple_windows(data, window_size, prediction_steps) ==
    LET st == PyRange(0, Len(data) - window_size - prediction_steps + 1, 1)
    IN  [outcome |-> "ok",
         X |-> [k \in 1..Len(st) |-> PySlice(data, st[k], st[k] + window_size)],
         y |-> [k \in 1..Len(st) |->
                   PySlice(data, st[k] + window_size,
                           st[k] + window_size + prediction_steps)]]

\* trend = (y[0] - x[-1]) / max(x[-1], 0.001) of one training pair
TrendOf(x, y) ==
    LET last == Int2Rat(x[Len(x)])
        floor == Fl(Rat(1, 1000))
    IN  FDiv(FSub(Int2Rat(y[1]), last), IF RLess(last, floor) THEN floor ELSE last)

\* the trends of the pairs with len(x) > 1 and len(y) > 0 that are finite
RECURSIVE Trends(_, _)
Trends(X_train, y_train) ==
    IF X_train = << >> \/ y_train = << >> THEN << >>
    ELSE LET x == Head(X_train)
             y == Head(y_train)
             rest == Trends(Tail(X_train), Tail(y_train))
         IN  IF Len(x) > 1 /\ Len(y) > 0
             THEN Only({IF t.d # 0 THEN <<t>> \o rest ELSE rest : t \in {TrendOf(x, y)}})
             ELSE rest

\* pred of one test window: steps times next_price = last_price * (1 +
\* avg_trend), starting from the window's last value
RECURSIVE ForecastFrom(_, _, _)
ForecastFrom(last_price, avg_trend, steps) ==
    IF steps = 0 THEN << >>
    ELSE Only({<<next_price>> \o ForecastFrom(next_price, avg_trend, steps - 1) :
               next_price \in {FMul(last_price, FAdd(Int2Rat(1), avg_trend))}})

\* simple_prediction_model with a seeded fault: one step fewer per window
simple_prediction_model_Short(X_train, y_train, X_test) ==
    [k \in 1..Len(X_test) |->
        ForecastFrom(Int2Rat(X_test[k][Len(X_test[k])]), Fl(Rat(1, 100)),
                     DemoForecastSteps - 1)]

\* simple_prediction_model(X_train, y_train, X_test): avg_trend is the mean
\* of the trends, or 0.01 when there is none; one pred of three values per
\* test window
simple_prediction_model(X_train, y_train, X_test) ==
    Only({[k \in 1..Len(X_test) |->
              ForecastFrom(Int2Rat(X_test[k][Len(X_test[k])]), avg_trend,
                           DemoForecastSteps)] :
          avg_trend \in {Only({IF trends # << >> THEN FMean(trends) ELSE Fl(Rat(1, 100)) :
                                trends \in {Trends(X_train, y_train)}})}})

\* ------------------------------------------------------------- src/app.py
\* The Flask application: the users, appointments and medical_records
\* tables of medassist_db, the session of each browser, and the handlers of
\* the routes.

\* signup(): if len(password) < 6
MinPasswordLength == 6

\* the browsers talking to the application, each with its own session cookie
Clients == {"browser1", "browser2"}

\* what request.form.get returns for username, email and password; "" stands
\* for a missing or empty field
Usernames == {"", "alice", "bob"}
Emails == {"", "a@x.org", "b@x.org"}
Passwords == {"", "short", "secret1"}
\* the salts generate_password_hash draws
Salts == {"salt"}

\* werkzeug's generate_password_hash(password): the salt and a digest of the
\* salt and the password
generate_password_hash(password, salt) ==
    [salt |-> salt, digest |-> <<"digest", salt, password>>]
\* werkzeug's check_password_hash(pwhash, password): the digest recomputed
\* from the stored salt
check_password_hash(pwhash, password) ==
    pwhash.digest = <<"digest", pwhash.salt, password>>

\* init_database(): CREATE TABLE IF NOT EXISTS users / appointments /
\* medical_records, each with id INT AUTO_INCREMENT PRIMARY KEY; users.email
\* is UNIQUE, users.username is not
NewTable == [rows |-> << >>, auto_increment |-> 1]
NewDatabase == [users |-> NewTable, appointments |-> NewTable,
                medical_records |-> NewTable]

\* INSERT INTO table (...) VALUES (...): the row gets the next id
Insert(table, fields) ==
    [rows |-> Append(table.rows, [id |-> table.auto_increment] @@ fields),
     auto_increment |-> table.auto_increment + 1]
\* DELETE FROM table WHERE id = %s
DeleteById(table, id) ==
    [table EXCEPT !.rows = SelectSeq(@, LAMBDA r : r.id # id)]
\* what cursor.fetchone() may return after a SELECT without ORDER BY that
\* matched rows: one of them, or nothing (a row of id 0)
NoUser == [id |-> 0, username |-> "", email |-> "",
           password |-> generate_password_hash("", "")]
NoRecord == [id |-> 0, user_id |-> 0]
FetchOne(rows, none) ==
    IF rows = << >> THEN {none} ELSE {rows[k] : k \in DOMAIN rows}

\* a session without keys: a new browser's, and what session.clear() leaves
EmptySession == [k \in {} |-> ""]
\* 'user_id' in session
HasUserId(sess) == "user_id" \in DOMAIN sess

\* the responses of the handlers
redirect(location) == [status |-> 302, body |-> location]
render_template(name) == [status |-> 200, body |-> name]
jsonify(body, status) == [status |-> status, body |-> body]

\* login with a seeded fault: the password is checked but the session is
\* filled for every user found
login_NoCheck(sess, user, password) ==
    IF user.id # 0
    THEN [session |-> [user_id |-> user.id, username |-> user.username],
          password_ok |-> check_password_hash(user.password, password),
          response |-> redirect("/dashboard")]
    ELSE [session |-> sess, password_ok |-> FALSE,
          response |-> redirect("/?error=Invalid username or password.")]

\* login(), lines 639-645, with user = cursor.fetchone():
\*   if user and check_password_hash(user[2], password):
\*       session['user_id'] = user[0]; session['username'] = user[1]
login(sess, user, password) ==
    IF user.id # 0 /\ check_password_hash(user.password, password)
    THEN [session |-> [user_id |-> user.id, username |-> user.username],
          password_ok |-> TRUE,
          response |-> redirect("/dashboard")]
    ELSE [session |-> sess, password_ok |-> FALSE,
          response |-> redirect("/?error=Invalid username or password.")]

\* may_delete with a seeded fault: every record found may be deleted
may_delete_Any(sess, record) == record.id # 0

\* delete_medical_record(), lines 818-822: the record exists and
\* record[0] == session['user_id']
may_delete(sess, record) == record.id # 0 /\ record.user_id = sess.user_id

\* ------------------------------------------------------------------ state
VARIABLES
    \* SpecWin and Spec
    window_generator,   \* the SlidingWindowGenerator object's fields
    \* SpecWin
    wpc,                \* "start" | "constructed" | "windowed" | "split"
    args,               \* the constructor's arguments
    data,               \* the series handed to create_sliding_windows
    win_ret,            \* what create_sliding_windows did
    split,              \* the chronological split of the returned pairs
    \* SpecEval and Spec
    results,            \* evaluator.results: company_name -> metrics
    \* SpecEval and SpecMetrics
    eval_last,          \* the latest calculate_metrics call, its outcome, and
                        \* whether it replaced a different entry of its label
    latest,             \* per label, the metrics its latest call returned
    \* Spec: main()
    pc,                 \* the statement main() is at
    config,             \* the literals main() constructs its components with
    cnn_predictor,      \* the CNNStockPredictor object's fields
    scaler,             \* data_fetcher.scaler, the one MinMaxScaler object
    train_data,         \* train_data_raw's Close column and train_scaled
    train_windows,      \* X_train, y_train
    train_split,        \* X_train_split, y_train_split, X_val_split, y_val_split
    test_data_raw,      \* company -> Close column
    eval_idx,           \* position of the evaluation loop in test_data_raw
    test_windows,       \* X_test, y_test of the current company
    main_y_pred,        \* main()'s y_pred: the current company's predictions
    best_company,       \* the summary's best performer
    trace,              \* the calls made and lines printed so far
    \* Spec and SpecGen
    np_random,          \* numpy's global generator: its seed and position
    stream42,           \* the variates of the stream of seed 42
    \* SpecGen
    clock,              \* what datetime.now() reads
    gen_log,            \* the generator calls made: arguments and frame
    \* SpecNorm
    norm_in,            \* the series handed to the normalisation
    norm_out,           \* what the normalisation did with it
    \* SpecMetrics
    metric_in,          \* the arrays handed to calculate_metrics
    \* SpecDemo
    demo_windows,       \* what create_simple_windows returned
    demo_pred,          \* the demo's split and what simple_prediction_model returned
    \* SpecApp
    db,                 \* medassist_db: the users, appointments and medical_records tables
    session,            \* per browser, the keys and values of its Flask session
    request,            \* per browser, the request a handler is in the middle of
    response            \* the response returned last, and the statements run for it

winVars == <<wpc, args, data, win_ret, split>>
evalVars == <<eval_last, latest>>
pipeVars == <<pc, config, cnn_predictor, scaler, train_data, train_windows, train_split,
              test_data_raw, eval_idx, test_windows, main_y_pred, best_company, trace>>
rngVars == <<np_random, stream42>>
fnVars == <<clock, gen_log, norm_in, norm_out, metric_in>>
demoVars == <<demo_windows, demo_pred>>
appVars == <<db, session, request, response>>
stockVars == <<window_generator, results, winVars, evalVars, pipeVars, rngVars, fnVars,
               demoVars>>
vars == <<window_generator, results, wpc, args, data, win_ret, split, eval_last, latest,
          pc, config, cnn_predictor, scaler, train_data, train_windows, train_split,
          test_data_raw, eval_idx, test_windows, main_y_pred, best_company, trace,
          np_random, stream42, clock, gen_log, norm_in, norm_out, metric_in,
          demo_windows, demo_pred, db, session, request, response>>

\* ModelEvaluator.__init__: self.results = {}
NoResults == << >>
NoCall == [company_name |-> None, outcome |-> "none", ret |-> NoMetrics,
           replaced |-> FALSE]

NoGenerator == [window_size |-> 0, overlap |-> 0, stride |-> 0, prediction_steps |-> 0]
NoResult == [outcome |-> "none", printed |-> None,
             X |-> << >>, y |-> << >>, starts |-> << >>]
NoSplit == [num |-> 0, idx |-> 0,
            X_train |-> << >>, y_train |-> << >>, starts_train |-> << >>,
            X_val |-> << >>, y_val |-> << >>, starts_val |-> << >>]

\* every series of at most n elements over the sample values
SeriesUpTo(n) == UNION {[1..k -> SampleValues] : k \in 0..n}

\* the configurations tried: overlap ranges past window_size, so stride <= 0
\* is among them
ArgSet ==
    [window_size : 1..MaxWindow, overlap : 0..MaxWindow, prediction_steps : 1..MaxSteps]

\* the worked example of the specification: 100, 101, ..., 130 with
\* window_size = 10, overlap = 5, prediction_steps = 3
ExampleData == [k \in 1..31 |-> 99 + k]
ExampleArgs == [window_size |-> 10, overlap |-> 5, prediction_steps |-> 3]

\* the values of main()'s variables before main() assigns them
NoTrainData == [raw |-> << >>, scaled |-> << >>, original |-> << >>]
PipeIdle ==
    /\ pc = "idle"
    /\ config = ExampleArgs
    /\ cnn_predictor = NewPredictor(0, 0)
    /\ scaler = NoScaler
    /\ train_data = NoTrainData
    /\ train_windows = NoResult
    /\ train_split = NoSplit
    /\ test_data_raw = << >>
    /\ eval_idx = 0
    /\ test_windows = NoResult
    /\ main_y_pred = NoArray
    /\ best_company = None
    /\ trace = << >>
WinIdle ==
    /\ wpc = "idle"
    /\ args = ExampleArgs
    /\ data = << >>
    /\ win_ret = NoResult
    /\ split = NoSplit
EvalIdle ==
    /\ eval_last = NoCall
    /\ latest = NoResults
RngIdle ==
    /\ np_random = Unseeded
    /\ stream42 = DefaultStream
NoNorm == [by |-> None, outcome |-> "none", scaled |-> << >>, original |-> << >>,
           third |-> None]
NoArrays == [y_true |-> NoArray, y_pred |-> NoArray]
GenIdle ==
    /\ clock = 0
    /\ gen_log = << >>
NormIdle ==
    /\ norm_in = << >>
    /\ norm_out = NoNorm
MetricIdle == metric_in = NoArrays
NoDemoWindows == [outcome |-> "none", X |-> << >>, y |-> << >>]
NoDemoPred == [outcome |-> "none", split_idx |-> 0, y_test |-> << >>,
               predictions |-> << >>]
DemoIdle ==
    /\ demo_windows = NoDemoWindows
    /\ demo_pred = NoDemoPred
\* the values of the application's variables while it does not run
NoRequest == [route |-> "none", username |-> "", email |-> "",
              password |-> generate_password_hash("", ""), record_id |-> 0]
NoResponse == [client |-> None, route |-> "none", authenticated |-> FALSE,
               password_ok |-> FALSE, db |-> << >>, status |-> 0, body |-> ""]
AppIdle ==
    /\ db = NewDatabase
    /\ session = [c \in Clients |-> EmptySession]
    /\ request = [c \in Clients |-> NoRequest]
    /\ response = NoResponse
FnIdle == GenIdle /\ NormIdle /\ MetricIdle /\ DemoIdle

\* ---------------------------------------------------------------- SpecWin
InitWin ==
    /\ wpc = "start"
    /\ \/ args \in ArgSet /\ data \in SeriesUpTo(MaxLen)
       \/ args = ExampleArgs /\ data = ExampleData
    /\ window_generator = NoGenerator
    /\ win_ret = NoResult
    /\ split = NoSplit
    /\ results = NoResults
    /\ EvalIdle
    /\ PipeIdle
    /\ AppIdle
    /\ RngIdle
    /\ FnIdle

\* window_generator = SlidingWindowGenerator(window_size, overlap, prediction_steps)
WinConstruct ==
    /\ wpc = "start"
    /\ window_generator' = NewGenerator(args.window_size, args.overlap, args.prediction_steps)
    /\ wpc' = "constructed"
    /\ UNCHANGED <<args, data, win_ret, split, results, evalVars, pipeVars, rngVars, fnVars, demoVars, appVars>>

\* X, y = window_generator.create_sliding_windows(data)
WinCreate ==
    /\ wpc = "constructed"
    /\ win_ret' = create_sliding_windows(window_generator, data)
    /\ wpc' = "windowed"
    /\ UNCHANGED <<window_generator, args, data, split, results, evalVars, pipeVars, rngVars, fnVars, demoVars, appVars>>

\* the split of the pairs at idx, as both main() and the demo write it
ChronologicalSplit(ret, num) ==
    LET idx == SplitIdx(num, Len(ret.X))
    IN  [num |-> num, idx |-> idx,
         X_train |-> SplitHead(ret.X, idx), y_train |-> SplitHead(ret.y, idx),
         starts_train |-> SplitHead(ret.starts, idx),
         X_val |-> SplitTail(ret.X, idx), y_val |-> SplitTail(ret.y, idx),
         starts_val |-> SplitTail(ret.starts, idx)]

\* split_idx = int(ratio * len(X)); X[:split_idx], X[split_idx:] with main()'s
\* ratio 0.8 or the demo's 0.7
WinSplit ==
    /\ wpc = "windowed"
    /\ win_ret.outcome = "ok"
    /\ \E num \in {SplitNum, DemoSplitNum} : split' = ChronologicalSplit(win_ret, num)
    /\ wpc' = "split"
    /\ UNCHANGED <<window_generator, args, data, win_ret, results, evalVars, pipeVars, rngVars, fnVars, demoVars, appVars>>

NextWin == WinConstruct \/ WinCreate \/ WinSplit

SpecWin == InitWin /\ [][NextWin]_vars

\* --------------------------------------------------------------- SpecEval
MaxEvalLen == 1      \* most elements of an array handed to calculate_metrics

RatSeries(n) == UNION {[1..k -> {Int2Rat(v) : v \in SampleValues}] : k \in 0..n}

\* the ground-truth arrays: one-dimensional arrays of at most MaxEvalLen
\* elements and the two-dimensional (m, 1) arrays of the same elements
EvalArrays ==
    {Array1(e) : e \in RatSeries(MaxEvalLen)}
    \cup {Array2([k \in 1..Len(e) |-> <<e[k]>>]) : e \in RatSeries(MaxEvalLen)}

\* an array of a's shape with every element c
ConstantLike(a, c) ==
    IF a.ndim > 1
    THEN Array2([k \in 1..Len(a.v) |-> <<Int2Rat(c)>>])
    ELSE Array1([k \in 1..Len(a.v) |-> Int2Rat(c)])
\* a without its last row or element (a itself when it has none)
DropLast(a) == [a EXCEPT !.v = PySlice(a.v, 0, Len(a.v) - 1)]

\* the predictions tried against ground truth a: constant forecasts of a's
\* shape, and one of a different element count
PredictionsFor(a) == {ConstantLike(a, c) : c \in SampleValues} \cup {DropLast(a)}

InitEval ==
    /\ results = NoResults
    /\ eval_last = NoCall
    /\ latest = NoResults
    /\ window_generator = NoGenerator
    /\ WinIdle
    /\ PipeIdle
    /\ AppIdle
    /\ RngIdle
    /\ FnIdle

\* metrics = evaluator.calculate_metrics(y_true, y_pred, company_name)
EvalCall ==
    \E company_name \in Labels, y_true \in EvalArrays :
      \E y_pred \in PredictionsFor(y_true) :
        \E r \in {calculate_metrics(results, y_true, y_pred, company_name)} :
            /\ results' = r.results
            /\ eval_last' = [company_name |-> company_name, outcome |-> r.outcome,
                             ret |-> r.ret,
                             replaced |-> /\ r.outcome = "returned"
                                          /\ company_name \in DOMAIN results
                                          /\ results[company_name] # r.ret]
            /\ latest' = IF r.outcome = "returned"
                         THEN (company_name :> r.ret) @@ latest
                         ELSE latest
            /\ UNCHANGED <<window_generator, winVars, pipeVars, rngVars, fnVars, demoVars, appVars>>

NextEval == EvalCall

SpecEval == InitEval /\ [][NextEval]_vars

\* --------------------------------------------------------------- SpecDemo
\* the shortest series the demo's main() analyses: it gives DemoMinPairs pairs
DemoSeries ==
    [k \in 1..(DemoMinPairs + DemoWindowSize + DemoPredictionSteps - 1) |-> 99 + k]
DemoArgs == [window_size |-> DemoWindowSize, overlap |-> DemoWindowSize - 1,
             prediction_steps |-> DemoPredictionSteps]

\* every small series and configuration with overlap = window_size - 1, and
\* the demo's own configuration on DemoSeries
InitDemo ==
    /\ wpc = "start"
    /\ \/ /\ args \in {a \in ArgSet : a.overlap = a.window_size - 1}
          /\ data \in SeriesUpTo(MaxLen)
       \/ args = DemoArgs /\ data = DemoSeries
    /\ window_generator = NoGenerator
    /\ win_ret = NoResult
    /\ split = NoSplit
    /\ results = NoResults
    /\ demo_windows = NoDemoWindows
    /\ demo_pred = NoDemoPred
    /\ EvalIdle
    /\ PipeIdle
    /\ AppIdle
    /\ RngIdle
    /\ GenIdle
    /\ NormIdle
    /\ MetricIdle

\* X, y = create_simple_windows(data, window_size, prediction_steps)
DemoWindows ==
    /\ demo_windows = NoDemoWindows
    /\ demo_windows' = create_simple_windows(data, args.window_size, args.prediction_steps)
    /\ UNCHANGED <<window_generator, results, demo_pred, winVars, evalVars, pipeVars,
                   rngVars, fnVars, appVars>>

\* the demo's main(), lines 128-137: if len(X) < 10: continue; the 70/30
\* split; predictions = simple_prediction_model(X_train, y_train, X_test)
DemoPredict ==
    /\ demo_windows.outcome = "ok"
    /\ demo_pred = NoDemoPred
    /\ LET n == Len(demo_windows.X)
           idx == SplitIdx(DemoSplitNum, n)
       IN  demo_pred' =
              IF n < DemoMinPairs
              THEN [NoDemoPred EXCEPT !.outcome = "insufficient"]
              ELSE [outcome |-> "ok", split_idx |-> idx,
                    y_test |-> SplitTail(demo_windows.y, idx),
                    predictions |->
                        simple_prediction_model(SplitHead(demo_windows.X, idx),
                                                SplitHead(demo_windows.y, idx),
                                                SplitTail(demo_windows.X, idx))]
    /\ UNCHANGED <<window_generator, results, demo_windows, winVars, evalVars, pipeVars,
                   rngVars, fnVars, appVars>>

NextDemo == WinConstruct \/ WinCreate \/ DemoWindows \/ DemoPredict

SpecDemo == InitDemo /\ [][NextDemo]_vars

\* ------------------------------------------------------------ SpecMetrics
MaxMetricLen == 3    \* most elements of y_true
MaxMetricValue == 14 \* largest element of y_true

\* the elements: the floats 0, 1, ..., MaxMetricValue
MetricValues == {Fl(Int2Rat(c)) : c \in 0..MaxMetricValue}

\* the ground truths: every constant array, and every two-element array
\* that starts with a zero
MetricTruths ==
    {[k \in 1..n |-> c] : n \in 1..MaxMetricLen, c \in MetricValues}
    \cup {<<Int2Rat(0), c>> : c \in MetricValues}

\* the predictions tried against ground truth t: t itself and t + 1
MetricPredictions(t) ==
    {[k \in 1..Len(t) |-> FAdd(t[k], Int2Rat(d))] : d \in SampleValues}

MetricInputs ==
    UNION {{[y_true |-> Array1(t), y_pred |-> Array1(p)] : p \in MetricPredictions(t)} :
           t \in MetricTruths}

InitMetrics ==
    /\ metric_in \in MetricInputs
    /\ results = NoResults
    /\ EvalIdle
    /\ window_generator = NoGenerator
    /\ WinIdle
    /\ PipeIdle
    /\ AppIdle
    /\ RngIdle
    /\ GenIdle
    /\ NormIdle
    /\ DemoIdle

\* metrics = evaluator.calculate_metrics(y_true, y_pred, company_name) on a
\* new evaluator
MetricsCall ==
    /\ eval_last = NoCall
    /\ \E r \in {calculate_metrics(results, metric_in.y_true, metric_in.y_pred,
                                    Companies[1])} :
          /\ results' = r.results
          /\ eval_last' = [company_name |-> Companies[1], outcome |-> r.outcome,
                           ret |-> r.ret, replaced |-> FALSE]
    /\ UNCHANGED <<window_generator, latest, winVars, pipeVars, rngVars, fnVars, demoVars, appVars>>

NextMetrics == MetricsCall

SpecMetrics == InitMetrics /\ [][NextMetrics]_vars

\* ---------------------------------------------------------------- SpecGen
MaxGenCalls == 2     \* most generator calls of a run
MaxClock == 1        \* latest reading of the clock

\* one generator call: the function, its arguments (those it does not take
\* are None or 0) and the frame it returned
GenCall(fn, symbol, range, n_days, base, frame) ==
    [fn |-> fn, symbol |-> symbol,
     start_date |-> range.start_date, end_date |-> range.end_date,
     n_days |-> n_days, base_price |-> base, frame |-> frame]
NoRange == [start_date |-> None, end_date |-> None]

InitGen ==
    /\ stream42 \in Streams
    /\ np_random = Unseeded
    /\ clock = 0
    /\ gen_log = << >>
    /\ results = NoResults
    /\ EvalIdle
    /\ window_generator = NoGenerator
    /\ WinIdle
    /\ PipeIdle
    /\ AppIdle
    /\ NormIdle
    /\ MetricIdle
    /\ DemoIdle

\* data_fetcher._generate_simulated_data(symbol, start_date, end_date): seeds
\* the generator and takes 5n draws (price_changes, noise, High, Low, Volume)
GenSimulated ==
    /\ Len(gen_log) < MaxGenCalls
    /\ \E c \in Labels, range \in {TrainRange, TestRange} :
          gen_log' = Append(gen_log,
                            GenCall("_generate_simulated_data", Ticker(c), range, 0, 0,
                                    generate_simulated_data(stream42, Ticker(c), range)))
    /\ np_random' = Advance(Seeded42, 5 * SimPoints)
    /\ UNCHANGED <<window_generator, results, stream42, clock, norm_in, norm_out,
                   metric_in, winVars, evalVars, pipeVars, demoVars, appVars>>

\* generate_demo_stock_data(symbol, n_days, base_price) as the demo's main()
\* calls it (lines 114-118): seeds the generator and takes 2n draws
\* (price_changes, Volume)
GenDemo ==
    /\ Len(gen_log) < MaxGenCalls
    /\ \E c \in Labels :
          gen_log' = Append(gen_log,
                            GenCall("generate_demo_stock_data", c, NoRange, SimPoints,
                                    base_price(Ticker(c)),
                                    generate_demo_stock_data(stream42, clock, c, SimPoints,
                                                             base_price(Ticker(c)))))
    /\ np_random' = Advance(Seeded42, 2 * SimPoints)
    /\ UNCHANGED <<window_generator, results, stream42, clock, norm_in, norm_out,
                   metric_in, winVars, evalVars, pipeVars, demoVars, appVars>>

\* time passes: datetime.now() reads a later instant
ClockTick ==
    /\ clock < MaxClock
    /\ clock' = clock + 1
    /\ UNCHANGED <<window_generator, results, rngVars, gen_log, norm_in, norm_out,
                   metric_in, winVars, evalVars, pipeVars, demoVars, appVars>>

NextGen == GenSimulated \/ GenDemo \/ ClockTick

SpecGen == InitGen /\ [][NextGen]_vars

\* --------------------------------------------------------------- SpecNorm
MaxNormLen == 2      \* most elements of a series handed to a normalisation
MaxPrice == 7        \* largest price of such a series

\* the series: every sequence of at most MaxNormLen of the floats 0, 1, ...,
\* MaxPrice
NormSeries ==
    UNION {[1..n -> {Fl(Int2Rat(c)) : c \in 0..MaxPrice}] : n \in 0..MaxNormLen}

InitNorm ==
    /\ norm_in \in NormSeries
    /\ norm_out = NoNorm
    /\ results = NoResults
    /\ EvalIdle
    /\ window_generator = NoGenerator
    /\ WinIdle
    /\ PipeIdle
    /\ AppIdle
    /\ RngIdle
    /\ GenIdle
    /\ MetricIdle
    /\ DemoIdle

\* scaled, original, third = data_fetcher.preprocess_data(data) on a new
\* fetcher, data being a frame whose Close column is norm_in
NormPreprocess ==
    /\ norm_out = NoNorm
    /\ \E r \in {preprocess_data(scaler, norm_in)} :
          /\ norm_out' = [by |-> "preprocess_data", outcome |-> r.outcome,
                          scaled |-> r.scaled, original |-> r.original, third |-> r.third]
          /\ scaler' = r.scaler
    /\ UNCHANGED <<window_generator, results, pc, config, cnn_predictor, train_data,
                   train_windows, train_split, test_data_raw, eval_idx, test_windows,
                   main_y_pred, best_company, trace, norm_in, clock, gen_log, metric_in,
                   winVars, evalVars, rngVars, demoVars, appVars>>

\* the demo's normalisation of prices = norm_in
NormDemo ==
    /\ norm_out = NoNorm
    /\ \E r \in {DemoNormalize(norm_in)} :
          norm_out' = [by |-> "demo", outcome |-> r.outcome, scaled |-> r.scaled,
                       original |-> norm_in, third |-> None]
    /\ UNCHANGED <<window_generator, results, norm_in, clock, gen_log, metric_in,
                   winVars, evalVars, pipeVars, rngVars, demoVars, appVars>>

NextNorm == NormPreprocess \/ NormDemo

SpecNorm == InitNorm /\ [][NextNorm]_vars

\* ------------------------------------------------------------ Spec: main()
MaxPipeWindow == 2   \* largest window_size / overlap main() is run with
MaxPipeSteps == 2    \* largest prediction_steps main() is run with

\* The literals of lines 403-404: the generator's window_size, overlap and
\* prediction_steps and the predictor's prediction_steps (its window_size is
\* stored and never read).  overlap ranges past window_size.
ConfigSet ==
    [window_size : 1..MaxPipeWindow, overlap : 0..MaxPipeWindow,
     prediction_steps : 1..MaxPipeSteps, predictor_steps : 1..MaxPipeSteps]
\* main() as written gives both components the same prediction_steps
PipeArgSet == {c \in ConfigSet : c.predictor_steps = c.prediction_steps}
\* the two literals edited apart, the windows not overlapping
MismatchArgSet ==
    {c \in ConfigSet : c.predictor_steps # c.prediction_steps /\ c.overlap = 0}

\* one entry of the trace: a call made or a line printed, the symbol or
\* company it concerns, and the window lengths of the array it was given
Ev(ev, who, lens) == [ev |-> ev, who |-> who, lens |-> lens]
WindowLengths(X) == {Len(X[k]) : k \in 1..Len(X)}

\* FetchTrace with a seeded fault: nothing is printed
FetchTrace_Silent(outcome, symbol) == <<Ev("fetch", symbol, {})>>

\* what one fetch_stock_data call and its caller's fallback leave in the
\* trace: the call, the line it prints, and the caller's line when it
\* substitutes simulated data
FetchTrace(outcome, symbol) ==
    <<Ev("fetch", symbol, {})>>
    \o (CASE outcome.status = "error" -> <<Ev("print: Error fetching data", symbol, {})>>
          [] outcome.status = "empty" -> <<Ev("print: No data available", symbol, {})>>
          [] OTHER -> <<Ev("print: Successfully fetched", symbol, {})>>)
    \o (IF fetch_stock_data(outcome) = << >>
        THEN <<Ev("print: using simulated data", symbol, {})>>
        ELSE << >>)

\* what a create_sliding_windows call prints
WindowTrace(r, who) ==
    IF r.printed = None THEN << >> ELSE <<Ev("print: " \o r.printed, who, {})>>

\* main() before its first statement
MainStart ==
    /\ pc = "start"
    /\ window_generator = NoGenerator
    /\ cnn_predictor = NewPredictor(0, 0)
    /\ scaler = NoScaler
    /\ results = NoResults
    /\ train_data = NoTrainData
    /\ train_windows = NoResult
    /\ train_split = NoSplit
    /\ test_data_raw = << >>
    /\ eval_idx = 0
    /\ test_windows = NoResult
    /\ main_y_pred = NoArray
    /\ best_company = None
    /\ trace = << >>
    /\ WinIdle
    /\ AppIdle
    /\ EvalIdle
    /\ RngIdle
    /\ FnIdle

Init == config \in PipeArgSet /\ MainStart

\* lines 402-405: data_fetcher, window_generator, cnn_predictor, evaluator
MainConstruct ==
    /\ pc = "start"
    /\ window_generator' =
          NewGenerator(config.window_size, config.overlap, config.prediction_steps)
    /\ cnn_predictor' = NewPredictor(config.window_size, config.predictor_steps)
    /\ scaler' = NoScaler
    /\ results' = NoResults
    /\ trace' = Append(trace, Ev("construct", None, {}))
    /\ pc' = "get_training_data"
    /\ UNCHANGED <<config, train_data, train_windows, train_split, test_data_raw,
                   eval_idx, test_windows, main_y_pred, best_company, winVars, evalVars, rngVars, fnVars, demoVars, appVars>>

\* line 408: train_data_raw = data_fetcher.get_training_data()
MainGetTrainingData ==
    /\ pc = "get_training_data"
    /\ \E outcome \in FetchOutcomes :
          /\ train_data' = [train_data EXCEPT
                               !.raw = WithFallback(fetch_stock_data(outcome), stream42,
                                                    Ticker("INFY"), TrainRange)]
          /\ np_random' = RngAfterFetch(np_random, fetch_stock_data(outcome))
          /\ trace' = trace \o FetchTrace(outcome, Ticker("INFY"))
    /\ pc' = "preprocess_train"
    /\ UNCHANGED <<window_generator, results, config, cnn_predictor, scaler, train_windows,
                   train_split, test_data_raw, eval_idx, test_windows, main_y_pred,
                   best_company, winVars, evalVars, stream42, fnVars, demoVars, appVars>>

\* line 409: train_scaled, train_original, train_scaler = preprocess_data(...)
MainPreprocessTrain ==
    /\ pc = "preprocess_train"
    /\ \E r \in {preprocess_data(scaler, train_data.raw)} :
          /\ train_data' = [train_data EXCEPT !.scaled = r.scaled, !.original = r.original]
          /\ scaler' = r.scaler
    /\ pc' = "window_train"
    /\ UNCHANGED <<window_generator, results, config, cnn_predictor, train_windows,
                   train_split, test_data_raw, eval_idx, test_windows, main_y_pred,
                   best_company, trace, winVars, evalVars, rngVars, fnVars, demoVars, appVars>>

\* lines 416-420: X_train, y_train = create_sliding_windows(train_scaled);
\* an exception ends main(), an empty X_train makes it return
MainWindowTrain ==
    /\ pc = "window_train"
    /\ \E r \in {create_sliding_windows(window_generator, train_data.scaled)} :
          /\ train_windows' = r
          /\ trace' = trace \o WindowTrace(r, Ticker("INFY"))
                      \o (IF r.outcome = "insufficient"
                          THEN <<Ev("print: Failed to create windows", Ticker("INFY"), {})>>
                          ELSE << >>)
          /\ pc' = CASE r.outcome \in {"ValueError", "IndexError"} -> "crashed"
                     [] r.outcome = "insufficient" -> "returned"
                     [] OTHER -> "build_model"
    /\ UNCHANGED <<window_generator, results, config, cnn_predictor, scaler, train_data,
                   train_split, test_data_raw, eval_idx, test_windows, main_y_pred,
                   best_company, winVars, evalVars, rngVars, fnVars, demoVars, appVars>>

\* MainBuildModel with a seeded fault: build_model is never called
MainBuildModel_Skip ==
    /\ pc = "build_model"
    /\ pc' = "split"
    /\ UNCHANGED <<window_generator, results, config, cnn_predictor, scaler, train_data,
                   train_windows, train_split, test_data_raw, eval_idx, test_windows,
                   main_y_pred, best_company, trace, winVars, evalVars, rngVars, fnVars, demoVars, appVars>>

\* line 423: build_model(input_shape=(X_train.shape[1], X_train.shape[2]))
MainBuildModel ==
    /\ pc = "build_model"
    /\ cnn_predictor' = build_model(cnn_predictor, Len(train_windows.X[1]))
    /\ pc' = "split"
    /\ UNCHANGED <<window_generator, results, config, scaler, train_data, train_windows,
                   train_split, test_data_raw, eval_idx, test_windows, main_y_pred,
                   best_company, trace, winVars, evalVars, rngVars, fnVars, demoVars, appVars>>

\* lines 426-430: the 80/20 split of X_train, y_train
MainSplit ==
    /\ pc = "split"
    /\ train_split' = ChronologicalSplit(train_windows, SplitNum)
    /\ pc' = "train"
    /\ UNCHANGED <<window_generator, results, config, cnn_predictor, scaler, train_data,
                   train_windows, test_data_raw, eval_idx, test_windows, main_y_pred,
                   best_company, trace, winVars, evalVars, rngVars, fnVars, demoVars, appVars>>

\* lines 433-439: cnn_predictor.train_model(X_train_split, ...).  The slices
\* keep X_train's window length (shape[1]), also when they hold no window.
MainTrain ==
    /\ pc = "train"
    /\ \E outcome \in TrainOutcomes(cnn_predictor, train_split.X_train, train_split.y_train),
          w \in ModelWeights :
          /\ cnn_predictor' = IF outcome = "ok"
                              THEN [cnn_predictor EXCEPT !.fitted = TRUE, !.weights = w]
                              ELSE cnn_predictor
          /\ trace' = Append(trace, Ev("train: " \o outcome, Ticker("INFY"),
                                       WindowLengths(train_windows.X)))
          /\ pc' = IF outcome = "raised" THEN "crashed" ELSE "get_testing_data"
    /\ UNCHANGED <<window_generator, results, config, scaler, train_data, train_windows,
                   train_split, test_data_raw, eval_idx, test_windows, main_y_pred,
                   best_company, winVars, evalVars, rngVars, fnVars, demoVars, appVars>>

\* line 442, one pass of get_testing_data's loop: fetch the next company and
\* fall back to simulated data; after the last company the evaluation loop
\* starts
MainGetTestingData ==
    /\ pc = "get_testing_data"
    /\ LET k == Cardinality(DOMAIN test_data_raw) + 1
           company == Companies[k]
       IN  /\ \E outcome \in FetchOutcomes :
                /\ test_data_raw' =
                      (company :> WithFallback(fetch_stock_data(outcome), stream42,
                                               Ticker(company), TestRange))
                      @@ test_data_raw
                /\ np_random' = RngAfterFetch(np_random, fetch_stock_data(outcome))
                /\ trace' = trace \o FetchTrace(outcome, Ticker(company))
           /\ pc' = IF k = Len(Companies) THEN "eval_loop" ELSE "get_testing_data"
           /\ eval_idx' = IF k = Len(Companies) THEN 1 ELSE eval_idx
    /\ UNCHANGED <<window_generator, results, config, cnn_predictor, scaler, train_data,
                   train_windows, train_split, test_windows, main_y_pred, best_company,
                   winVars, evalVars, stream42, fnVars, demoVars, appVars>>

\* lines 444-457 for the company at eval_idx: print, skip an empty frame,
\* preprocess, window; an empty X_test goes to the next company when
\* on_empty is "continue" and leaves the loop when it is "break"
EvalWindowsStep(on_empty) ==
    /\ pc = "eval_loop"
    /\ eval_idx <= Len(Companies)
    /\ LET company == Companies[eval_idx]
           company_data == test_data_raw[company]
           skip == IF on_empty = "continue" THEN eval_idx + 1 ELSE Len(Companies) + 1
       IN  IF company_data = << >>
           THEN /\ trace' = Append(trace, Ev("print: Evaluating", company, {}))
                /\ eval_idx' = eval_idx + 1
                /\ UNCHANGED <<pc, scaler, test_windows>>
           ELSE \E pre \in {preprocess_data(scaler, company_data)} :
                \E r \in {create_sliding_windows(window_generator, pre.scaled)} :
                   /\ scaler' = pre.scaler
                   /\ test_windows' = r
                   /\ trace' = Append(trace, Ev("print: Evaluating", company, {}))
                               \o WindowTrace(r, company)
                   /\ pc' = CASE r.outcome \in {"ValueError", "IndexError"} -> "crashed"
                              [] r.outcome = "insufficient" -> "eval_loop"
                              [] OTHER -> "predict"
                   /\ eval_idx' = IF r.outcome = "insufficient" THEN skip ELSE eval_idx
    /\ UNCHANGED <<window_generator, results, config, cnn_predictor, train_data,
                   train_windows, train_split, test_data_raw, main_y_pred, best_company,
                   winVars, evalVars, rngVars, fnVars, demoVars, appVars>>

\* MainEvalWindows with a seeded fault: the first short series ends the loop
MainEvalWindows_Break == EvalWindowsStep("break")

\* lines 444-457 as written: if len(X_test) == 0: continue
MainEvalWindows == EvalWindowsStep("continue")

\* line 460: y_pred = cnn_predictor.predict(X_test)
MainPredict ==
    /\ pc = "predict"
    /\ main_y_pred' = predict(cnn_predictor, test_windows.X)
    /\ trace' = Append(trace, Ev("predict", Companies[eval_idx],
                                 WindowLengths(test_windows.X)))
    /\ pc' = "metrics"
    /\ UNCHANGED <<window_generator, results, config, cnn_predictor, scaler, train_data,
                   train_windows, train_split, test_data_raw, eval_idx, test_windows,
                   best_company, winVars, evalVars, rngVars, fnVars, demoVars, appVars>>

\* lines 463-464: metrics = evaluator.calculate_metrics(y_test, y_pred,
\* company_name); print_metrics(metrics); an exception ends main()
MainMetrics ==
    /\ pc = "metrics"
    /\ \E r \in {calculate_metrics(results, Array2(test_windows.y), main_y_pred,
                                  Companies[eval_idx])} :
          /\ results' = r.results
          /\ trace' = Append(trace, Ev("calculate_metrics: " \o r.outcome,
                                       Companies[eval_idx], {}))
          /\ pc' = IF r.outcome = "returned" THEN "eval_loop" ELSE "crashed"
          /\ eval_idx' = IF r.outcome = "returned" THEN eval_idx + 1 ELSE eval_idx
    /\ UNCHANGED <<window_generator, config, cnn_predictor, scaler, train_data,
                   train_windows, train_split, test_data_raw, test_windows, main_y_pred,
                   best_company, winVars, evalVars, rngVars, fnVars, demoVars, appVars>>

\* lines 467-472: the final summary
MainSummary ==
    /\ pc = "eval_loop"
    /\ eval_idx > Len(Companies)
    /\ best_company' = IF DOMAIN results # {} THEN BestCompany(results, Companies) ELSE None
    /\ trace' = Append(trace, Ev("print: PIPELINE COMPLETED", None, {}))
    /\ pc' = "done"
    /\ UNCHANGED <<window_generator, results, config, cnn_predictor, scaler, train_data,
                   train_windows, train_split, test_data_raw, eval_idx, test_windows,
                   main_y_pred, winVars, evalVars, rngVars, fnVars, demoVars, appVars>>

Next ==
    \/ MainConstruct
    \/ MainGetTrainingData
    \/ MainPreprocessTrain
    \/ MainWindowTrain
    \/ MainBuildModel
    \/ MainSplit
    \/ MainTrain
    \/ MainGetTestingData
    \/ MainEvalWindows
    \/ MainPredict
    \/ MainMetrics
    \/ MainSummary

Spec == Init /\ [][Next]_vars

\* ------------------------------------------------------------ SpecMismatch
\* main() with a predictor whose prediction_steps is not the generator's
InitMismatch == config \in MismatchArgSet /\ MainStart

SpecMismatch == InitMismatch /\ [][Next]_vars

\* ------------------------------------------------- the handlers of app.py
\* A handler is one step, except signup and delete_medical_record: their
\* SELECT and their INSERT or DELETE are two statements, and the statements of
\* another browser's request run between them.  get_db_connection() returns
\* None when MySQL is not reachable.
MaxRecords == 1         \* medical records ever added
MaxAppointments == 1    \* appointments ever booked

\* browser c has no request in flight
Idle(c) == request[c].route = "none"

\* the handler of route returns r to browser c after the statements stmts
Answer(c, route, password_ok, stmts, r) ==
    response' = [client |-> c, route |-> route,
                 authenticated |-> HasUserId(session[c]),
                 password_ok |-> password_ok, db |-> stmts,
                 status |-> r.status, body |-> r.body]

\* signup(), lines 576-601: the checks of the form, the connection, and
\* SELECT id FROM users WHERE username = %s OR email = %s
Signup(c) ==
    /\ Idle(c)
    /\ \E username \in Usernames, email \in Emails, password \in Passwords,
          salt \in Salts, connected \in BOOLEAN :
          LET existing == SelectSeq(db.users.rows,
                                    LAMBDA u : u.username = username \/ u.email = email)
          IN  IF username = "" \/ email = "" \/ password = ""
              THEN /\ Answer(c, "signup", FALSE, << >>,
                             redirect("/?error=Please fill in all fields."))
                   /\ UNCHANGED request
              ELSE IF Len(password) < MinPasswordLength
              THEN /\ Answer(c, "signup", FALSE, << >>,
                             redirect("/?error=Password must be at least 6 characters long."))
                   /\ UNCHANGED request
              ELSE IF ~connected
              THEN /\ Answer(c, "signup", FALSE, << >>,
                             redirect("/?error=Database connection failed."))
                   /\ UNCHANGED request
              ELSE IF existing # << >>
              THEN /\ Answer(c, "signup", FALSE, <<"SELECT users">>,
                             redirect("/?error=Username or email already exists."))
                   /\ UNCHANGED request
              ELSE /\ request' = [request EXCEPT ![c] =
                          [NoRequest EXCEPT !.route = "signup", !.username = username,
                               !.email = email,
                               !.password = generate_password_hash(password, salt)]]
                   /\ UNCHANGED response
    /\ UNCHANGED <<db, session, stockVars>>

\* signup(), lines 603-615: INSERT INTO users, commit, the welcome email.
\* The INSERT of an email another row holds fails on the UNIQUE index with a
\* mysql.connector.Error
SignupInsert(c) ==
    /\ request[c].route = "signup"
    /\ IF \E k \in DOMAIN db.users.rows : db.users.rows[k].email = request[c].email
       THEN /\ Answer(c, "signup", FALSE, <<"SELECT users", "INSERT users">>,
                      redirect("/?error=Registration failed"))
            /\ UNCHANGED db
       ELSE /\ db' = [db EXCEPT !.users =
                         Insert(@, [username |-> request[c].username,
                                    email |-> request[c].email,
                                    password |-> request[c].password])]
            /\ Answer(c, "signup", FALSE, <<"SELECT users", "INSERT users", "COMMIT">>,
                      redirect("/?success=Account created successfully!"))
    /\ request' = [request EXCEPT ![c] = NoRequest]
    /\ UNCHANGED <<session, stockVars>>

\* login(), lines 622-653
Login(c) ==
    /\ Idle(c)
    /\ \E username \in Usernames, password \in Passwords :
          IF username = "" \/ password = ""
          THEN /\ Answer(c, "login", FALSE, << >>,
                         redirect("/?error=Please enter both username and password."))
               /\ UNCHANGED session
          ELSE \E connected \in BOOLEAN :
                  IF ~connected
                  THEN /\ Answer(c, "login", FALSE, << >>,
                                 redirect("/?error=Database connection failed."))
                       /\ UNCHANGED session
                  ELSE \E user \in FetchOne(SelectSeq(db.users.rows,
                                                      LAMBDA u : u.username = username),
                                            NoUser) :
                          \E ret \in {login(session[c], user, password)} :
                              /\ session' = [session EXCEPT ![c] = ret.session]
                              /\ Answer(c, "login", ret.password_ok, <<"SELECT users">>,
                                        ret.response)
    /\ UNCHANGED <<db, request, stockVars>>

\* logout(), lines 663-665: session.clear()
Logout(c) ==
    /\ Idle(c)
    /\ session' = [session EXCEPT ![c] = EmptySession]
    /\ Answer(c, "logout", FALSE, << >>,
              redirect("/?success=You have been logged out successfully."))
    /\ UNCHANGED <<db, request, stockVars>>

\* dashboard(), lines 657-659
Dashboard(c) ==
    /\ Idle(c)
    /\ IF ~HasUserId(session[c])
       THEN Answer(c, "dashboard", FALSE, << >>, redirect("/"))
       ELSE Answer(c, "dashboard", FALSE, << >>, render_template("dashboard.html"))
    /\ UNCHANGED <<db, session, request, stockVars>>

\* appointment(), lines 670-672
Appointment(c) ==
    /\ Idle(c)
    /\ IF ~HasUserId(session[c])
       THEN Answer(c, "appointment", FALSE, << >>, redirect("/"))
       ELSE Answer(c, "appointment", FALSE, << >>, render_template("appointment.html"))
    /\ UNCHANGED <<db, session, request, stockVars>>

\* book_appointment(), lines 676-727.  A form without one of the NOT NULL
\* columns makes the INSERT fail with a mysql.connector.Error
BookAppointment(c) ==
    /\ Idle(c)
    /\ IF ~HasUserId(session[c])
       THEN /\ Answer(c, "book_appointment", FALSE, << >>, redirect("/"))
            /\ UNCHANGED db
       ELSE \E connected \in BOOLEAN :
               IF ~connected
               THEN /\ Answer(c, "book_appointment", FALSE, << >>,
                              redirect("/appointment?error=Database connection failed"))
                    /\ UNCHANGED db
               ELSE \E complete \in BOOLEAN :
                       IF ~complete
                       THEN /\ Answer(c, "book_appointment", FALSE,
                                      <<"INSERT appointments">>,
                                      redirect("/appointment?error=Booking failed"))
                            /\ UNCHANGED db
                       ELSE /\ db.appointments.auto_increment <= MaxAppointments
                            /\ db' = [db EXCEPT !.appointments =
                                         Insert(@, [user_id |-> session[c].user_id])]
                            /\ Answer(c, "book_appointment", FALSE,
                                      <<"INSERT appointments", "COMMIT">>,
                                      redirect("/appointment?success=Appointment booked successfully!"))
    /\ UNCHANGED <<session, request, stockVars>>

\* medical_records(), lines 737-762: the records of the session's user are
\* listed when there is a connection
MedicalRecords(c) ==
    /\ Idle(c)
    /\ IF ~HasUserId(session[c])
       THEN Answer(c, "medical_records", FALSE, << >>, redirect("/"))
       ELSE \E connected \in BOOLEAN :
               Answer(c, "medical_records", FALSE,
                      IF connected THEN <<"SELECT medical_records">> ELSE << >>,
                      render_template("medical_records.html"))
    /\ UNCHANGED <<db, session, request, stockVars>>

\* add_medical_record(), lines 766-801
AddMedicalRecord(c) ==
    /\ Idle(c)
    /\ IF ~HasUserId(session[c])
       THEN /\ Answer(c, "add_medical_record", FALSE, << >>, redirect("/"))
            /\ UNCHANGED db
       ELSE \E complete \in BOOLEAN :
               IF ~complete
               THEN /\ Answer(c, "add_medical_record", FALSE, << >>,
                              redirect("/medical-records?error=Please fill in required fields"))
                    /\ UNCHANGED db
               ELSE \E connected \in BOOLEAN :
                       IF ~connected
                       THEN /\ Answer(c, "add_medical_record", FALSE, << >>,
                                      redirect("/medical-records?error=Database connection failed"))
                            /\ UNCHANGED db
                       ELSE /\ db.medical_records.auto_increment <= MaxRecords
                            /\ db' = [db EXCEPT !.medical_records =
                                         Insert(@, [user_id |-> session[c].user_id])]
                            /\ Answer(c, "add_medical_record", FALSE,
                                      <<"INSERT medical_records", "COMMIT">>,
                                      redirect("/medical-records?success=Medical record added successfully!"))
    /\ UNCHANGED <<session, request, stockVars>>

\* delete_medical_record(record_id), lines 805-822: the connection,
\* SELECT user_id FROM medical_records WHERE id = %s, and the two checks
DeleteMedicalRecord(c) ==
    /\ Idle(c)
    /\ IF ~HasUserId(session[c])
       THEN /\ Answer(c, "delete_medical_record", FALSE, << >>, redirect("/"))
            /\ UNCHANGED request
       ELSE \E connected \in BOOLEAN :
               IF ~connected
               THEN /\ Answer(c, "delete_medical_record", FALSE, << >>,
                              redirect("/medical-records?error=Database connection failed"))
                    /\ UNCHANGED request
               ELSE \E record_id \in 1..(MaxRecords + 1) :
                    \E record \in FetchOne(SelectSeq(db.medical_records.rows,
                                                     LAMBDA r : r.id = record_id),
                                           NoRecord) :
                       IF may_delete(session[c], record)
                       THEN /\ request' = [request EXCEPT ![c] =
                                   [NoRequest EXCEPT !.route = "delete_medical_record",
                                        !.record_id = record_id]]
                            /\ UNCHANGED response
                       ELSE /\ Answer(c, "delete_medical_record", FALSE,
                                      <<"SELECT medical_records">>,
                                      redirect(IF record.id = 0
                                               THEN "/medical-records?error=Record not found"
                                               ELSE "/medical-records?error=Unauthorized access"))
                            /\ UNCHANGED request
    /\ UNCHANGED <<db, session, stockVars>>

\* delete_medical_record(record_id), lines 824-827:
\* DELETE FROM medical_records WHERE id = %s, commit
DeleteExecute(c) ==
    /\ request[c].route = "delete_medical_record"
    /\ db' = [db EXCEPT !.medical_records = DeleteById(@, request[c].record_id)]
    /\ Answer(c, "delete_medical_record", FALSE,
              <<"SELECT medical_records", "DELETE medical_records", "COMMIT">>,
              redirect("/medical-records?success=Medical record deleted successfully!"))
    /\ request' = [request EXCEPT ![c] = NoRequest]
    /\ UNCHANGED <<session, stockVars>>

\* medications(), lines 838-863
Medications(c) ==
    /\ Idle(c)
    /\ IF ~HasUserId(session[c])
       THEN Answer(c, "medications", FALSE, << >>, redirect("/"))
       ELSE \E connected \in BOOLEAN :
               Answer(c, "medications", FALSE,
                      IF connected THEN <<"SELECT medications">> ELSE << >>,
                      render_template("medications.html"))
    /\ UNCHANGED <<db, session, request, stockVars>>

\* vital_signs(), lines 908-934
VitalSigns(c) ==
    /\ Idle(c)
    /\ IF ~HasUserId(session[c])
       THEN Answer(c, "vital_signs", FALSE, << >>, redirect("/"))
       ELSE \E connected \in BOOLEAN :
               Answer(c, "vital_signs", FALSE,
                      IF connected THEN <<"SELECT vital_signs">> ELSE << >>,
                      render_template("vital_signs.html"))
    /\ UNCHANGED <<db, session, request, stockVars>>

\* get_drug_info(), lines 991-998 and again 1104-1112: the local drug table
\* is a dictionary of the module, not a table of the database
GetDrugInfo(c) ==
    /\ Idle(c)
    /\ IF ~HasUserId(session[c])
       THEN Answer(c, "get_drug_info", FALSE, << >>,
                   jsonify("error: Not authenticated", 401))
       ELSE \E named \in BOOLEAN :
               IF ~named
               THEN Answer(c, "get_drug_info", FALSE, << >>,
                           jsonify("error: Please enter a drug name", 400))
               ELSE Answer(c, "get_drug_info", FALSE, << >>, jsonify("drug_info", 200))
    /\ UNCHANGED <<db, session, request, stockVars>>

\* ------------------------------------------------------------- SpecSignup
\* signup and login requests of two browsers, starting with an empty users
\* table
InitSignup ==
    /\ db = NewDatabase
    /\ session = [c \in Clients |-> EmptySession]
    /\ request = [c \in Clients |-> NoRequest]
    /\ response = NoResponse
    /\ window_generator = NoGenerator
    /\ results = NoResults
    /\ WinIdle
    /\ EvalIdle
    /\ PipeIdle
    /\ RngIdle
    /\ FnIdle

NextSignup == \E c \in Clients : Signup(c) \/ SignupInsert(c) \/ Login(c)

SpecSignup == InitSignup /\ [][NextSignup]_vars

\* ---------------------------------------------------------------- SpecApp
\* login, logout and the routes behind the login, served to two browsers,
\* with the users table the signups of alice and of bob leave.
RegisteredUsers ==
    Insert(Insert(NewTable,
                  [username |-> "alice", email |-> "a@x.org",
                   password |-> generate_password_hash("secret1", "salt")]),
           [username |-> "bob", email |-> "b@x.org",
            password |-> generate_password_hash("secret1", "salt")])

InitApp ==
    /\ db = [NewDatabase EXCEPT !.users = RegisteredUsers]
    /\ session = [c \in Clients |-> EmptySession]
    /\ request = [c \in Clients |-> NoRequest]
    /\ response = NoResponse
    /\ window_generator = NoGenerator
    /\ results = NoResults
    /\ WinIdle
    /\ EvalIdle
    /\ PipeIdle
    /\ RngIdle
    /\ FnIdle

NextApp ==
    \E c \in Clients :
        \/ Login(c)
        \/ Logout(c)
        \/ Dashboard(c)
        \/ Appointment(c)
        \/ BookAppointment(c)
        \/ MedicalRecords(c)
        \/ AddMedicalRecord(c)
        \/ DeleteMedicalRecord(c)
        \/ DeleteExecute(c)
        \/ Medications(c)
        \/ VitalSigns(c)
        \/ GetDrugInfo(c)

SpecApp == InitApp /\ [][NextApp]_vars

\* ================================================================= claims
\* the configuration and series of the current SpecWin run
ArgStride == args.window_size - args.overlap
Windowed == wpc \in {"windowed", "split"}
\* the positions of the trace holding event ev
At(ev) == {k \in 1..Len(trace) : trace[k].ev = ev}
AtFor(ev, who) == {k \in At(ev) : trace[k].who = who}
\* the evaluation series of company c is too short to window
Short(c) == Len(test_data_raw[c]) < config.window_size + config.prediction_steps

\* C1: for stride S = W - O > 0, create_sliding_windows returns exactly
\* floor((L - W - P) / S) + 1 (window, target) pairs when L >= W + P and none
\* otherwise (so L = W + P gives one pair and L = W + P - 1 gives none).
C1_WindowCount ==
    (Windowed /\ ArgStride > 0) =>
        LET L == Len(data)
            W == args.window_size
            P == args.prediction_steps
            expected == IF L >= W + P THEN ((L - W - P) \div ArgStride) + 1 ELSE 0
        IN  /\ win_ret.outcome \in {"ok", "insufficient"}
            /\ Len(win_ret.X) = expected
            /\ Len(win_ret.y) = expected
            /\ (L = W + P => expected = 1)
            /\ (L = W + P - 1 => expected = 0)

\* C1 witness: several pairs were returned and the division is not exact
C1_Witness ==
    /\ wpc = "windowed"
    /\ ArgStride > 1
    /\ Len(win_ret.X) >= 2
    /\ (Len(data) - args.window_size - args.prediction_steps) % ArgStride # 0

\* C2: the pair emitted for start index i is window = series[i .. i+W-1] of
\* length W and target = series[i+W .. i+W+P-1] of length P with
\* i + W + P <= len(series); a start whose target would pass the end of the
\* series emits nothing.
C2_PairsComplete ==
    Windowed =>
        LET W == args.window_size
            P == args.prediction_steps
        IN  /\ Len(win_ret.X) = Len(win_ret.starts)
            /\ Len(win_ret.y) = Len(win_ret.starts)
            /\ \A k \in 1..Len(win_ret.starts) :
                  LET i == win_ret.starts[k]
                  IN  /\ i >= 0
                      /\ i + W + P <= Len(data)
                      /\ Len(win_ret.X[k]) = W
                      /\ Len(win_ret.y[k]) = P
                      /\ Squeeze(win_ret.X[k]) = SubSeq(data, i + 1, i + W)
                      /\ win_ret.y[k] = SubSeq(data, i + W + 1, i + W + P)
            /\ \A i \in 0..Len(data) :
                  i + W + P > Len(data) =>
                      \A k \in 1..Len(win_ret.starts) : win_ret.starts[k] # i

\* C2 witness: pairs were emitted and the series has a tail too short for
\* one more pair at the next stride
C2_Witness ==
    /\ wpc = "windowed"
    /\ win_ret.outcome = "ok"
    /\ Len(win_ret.starts) >= 2
    /\ LET last == win_ret.starts[Len(win_ret.starts)]
       IN  /\ last + args.window_size + args.prediction_steps < Len(data)
           /\ last + ArgStride + args.window_size <= Len(data)

\* C3: the k-th pair (k = 0, 1, ...) starts at index k * stride, so starts
\* ascend strictly from 0; the 31-point example with window_size = 10,
\* overlap = 5, prediction_steps = 3 has starts exactly 0, 5, 10, 15.
C3_StartsAtMultiplesOfStride ==
    (Windowed /\ ArgStride > 0) =>
        /\ \A k \in 1..Len(win_ret.starts) : win_ret.starts[k] = (k - 1) * ArgStride
        /\ \A k \in 1..(Len(win_ret.starts) - 1) : win_ret.starts[k] < win_ret.starts[k + 1]
        /\ (data = ExampleData /\ args = ExampleArgs) =>
              /\ win_ret.starts = <<0, 5, 10, 15>>
              /\ Len(win_ret.X) = 4

\* C3 witness: the worked example has been windowed
C3_Witness ==
    /\ wpc = "windowed"
    /\ data = ExampleData
    /\ args = ExampleArgs
    /\ win_ret.starts = <<0, 5, 10, 15>>

\* C4 (as claimed): a generator configured with overlap >= window_size is
\* never used to produce a result; its use ends in a ConfigurationError.
C4_BadStrideIsConfigurationError ==
    (args.overlap >= args.window_size /\ Windowed) =>
        win_ret.outcome = "ConfigurationError"

C6_ShortSeriesSkipped ==
    \A k \in 1..Len(Companies) :
        LET c == Companies[k]
        IN  (c \in DOMAIN test_data_raw /\ Short(c)) =>
              /\ AtFor("predict", c) = {}
              /\ c \notin DOMAIN results
              /\ k < eval_idx =>
                    /\ AtFor("print: Insufficient data", c) # {}
                    /\ pc \in {"eval_loop", "predict", "metrics", "done"}
                    /\ \A j \in 1..Len(Companies) :
                          (j < eval_idx \/ pc = "done") =>
                              /\ AtFor("print: Evaluating", Companies[j]) # {}
                              /\ Short(Companies[j]) \/ Companies[j] \in DOMAIN results
              /\ (k = eval_idx - 1 /\ pc = "eval_loop") =>
                    /\ test_windows.outcome = "insufficient"
                    /\ test_windows.X = << >>
                    /\ test_windows.y = << >>

\* C6 witness: the first company was too short, and the run ended with
\* metrics for both companies after it
C6_Witness ==
    /\ pc = "done"
    /\ Short(Companies[1])
    /\ DOMAIN results = {Companies[2], Companies[3]}

\* C7: every predict call is preceded by a train_model call that completed.
C7_TrainBeforePredict ==
    \A k \in At("predict") : \E j \in At("train: ok") : j < k

\* C7 witness: predict has been called
C7_Witness == At("predict") # {} /\ pc = "metrics"

\* C8: every window handed to predict has the window length of the windows
\* handed to train_model in the same run.
C8_PredictShapeIsTrainShape ==
    \A k \in At("predict") :
        /\ At("train: ok") # {}
        /\ \A j \in At("train: ok") :
              /\ trace[k].lens = trace[j].lens
              /\ Cardinality(trace[k].lens) = 1

\* C8 witness: predict was handed several windows of a multi-element length
C8_Witness ==
    /\ pc = "metrics"
    /\ Len(test_windows.X) >= 2
    /\ config.window_size >= 2
    /\ trace[Len(trace)].lens = {config.window_size}

\* C9: the training subset is a prefix and the validation subset the
\* complementary suffix of the generated pairs, in their order, so every
\* training start index is below every validation start index.
C9_ChronologicalSplit ==
    wpc = "split" =>
        /\ split.X_train \o split.X_val = win_ret.X
        /\ split.y_train \o split.y_val = win_ret.y
        /\ split.starts_train \o split.starts_val = win_ret.starts
        /\ Len(split.X_train) = Len(split.starts_train)
        /\ Len(split.y_train) = Len(split.starts_train)
        /\ Len(split.X_train) = split.idx
        /\ \A a \in 1..Len(split.starts_train) : \A b \in 1..Len(split.starts_val) :
              split.starts_train[a] < split.starts_val[b]

\* C9 witness: a split with main()'s ratio, both sides holding pairs
C9_Witness ==
    /\ wpc = "split"
    /\ split.num = SplitNum
    /\ Len(split.X_train) >= 2
    /\ Len(split.X_val) >= 1

\* C10: calculate_metrics stores the returned metrics under its label,
\* replacing any earlier entry of that label and leaving every other label's
\* entry alone: the mapping holds exactly one entry per label evaluated, the
\* label's latest result.
C10_ResultsHoldLatest ==
    /\ DOMAIN results = DOMAIN latest
    /\ \A c \in DOMAIN results : results[c] = latest[c] /\ results[c].company = c
    /\ eval_last.outcome = "returned" =>
          /\ eval_last.company_name \in DOMAIN results
          /\ results[eval_last.company_name] = eval_last.ret
    /\ DOMAIN results \subseteq Labels

\* C10 witness: a call replaced its label's earlier, different entry while
\* another label's entry was present
C10_Witness ==
    /\ eval_last.outcome = "returned"
    /\ eval_last.replaced
    /\ Cardinality(DOMAIN results) >= 2

FirstStored(c) ==
    CHOOSE k \in AtFor("calculate_metrics: returned", c) :
        \A j \in AtFor("calculate_metrics: returned", c) : k <= j

\* C12: the best performer main() reports is a label of the results mapping
\* whose RMSE no other label undercuts, and among the labels sharing that
\* minimum it is the one inserted into the mapping first.
C12_BestIsFirstMinimum ==
    (pc = "done" /\ DOMAIN results # {}) =>
        /\ best_company \in DOMAIN results
        /\ \A c \in DOMAIN results :
              /\ ~RLess(results[c].rmse, results[best_company].rmse)
              /\ (c # best_company /\ results[c].rmse = results[best_company].rmse)
                    => FirstStored(best_company) < FirstStored(c)

\* C12 witness: two labels share the minimum, a third has a larger RMSE and
\* was inserted before them
C12_Witness ==
    /\ pc = "done"
    /\ DOMAIN results = Labels
    /\ best_company = Companies[2]
    /\ results[Companies[3]].rmse = results[Companies[2]].rmse
    /\ RLess(results[Companies[2]].rmse, results[Companies[1]].rmse)

\* ---------------------------------------------------------------- C13, C14
IsConstant(t) == \A j, k \in 1..Len(t) : t[j] = t[k]
HasZero(t) == \E k \in 1..Len(t) : t[k] = Int2Rat(0)
IsFinite(q) == q.d # 0

\* C13: calculate_metrics on a constant, non-empty ground truth and predictions
\* of the same length returns, and its r2_score is exactly 0
C13_ConstantTruthGivesZeroR2 ==
    (eval_last.outcome # "none" /\ IsConstant(metric_in.y_true.v)) =>
        /\ eval_last.outcome = "returned"
        /\ eval_last.ret.r2_score = Int2Rat(0)

\* C14: calculate_metrics on a ground truth with a zero entry returns, and its
\* mape is a finite number, not inf or nan
C14_MapeDefinedOnZeroTruth ==
    (eval_last.outcome # "none" /\ HasZero(metric_in.y_true.v)) =>
        /\ eval_last.outcome = "returned"
        /\ IsFinite(eval_last.ret.mape)

\* --------------------------------------------------------------------- C15
\* the fetch at position k of the trace brought no rows
Unavailable(k) ==
    trace[k + 1].ev \in {"print: Error fetching data", "print: No data available"}
\* the training fetch is the first fetch of the run, and the test fetch of a
\* company the last fetch of its ticker
FirstFetch == CHOOSE k \in At("fetch") : \A j \in At("fetch") : k <= j
LastFetch(symbol) ==
    CHOOSE k \in AtFor("fetch", symbol) : \A j \in AtFor("fetch", symbol) : j <= k

\* C15: a fetch that throws or brings no rows returns and is followed by the
\* substitution: the training data and every company's test data are never
\* empty, they are the simulated series of their symbol and date range when
\* the fetch brought nothing, and when main() ends with an exception it is
\* one raised by the windowing, the training or the metrics, not by a fetch
C15_UnavailableDataIsSubstituted ==
    /\ \A k \in At("fetch") :
          (k < Len(trace) /\ Unavailable(k)) =>
              /\ k + 1 < Len(trace)
              /\ trace[k + 2] = Ev("print: using simulated data", trace[k].who, {})
    /\ pc \notin {"start", "get_training_data"} =>
          /\ train_data.raw # << >>
          /\ Unavailable(FirstFetch) =>
                train_data.raw =
                    generate_simulated_data(stream42, Ticker("INFY"), TrainRange).close
    /\ \A c \in DOMAIN test_data_raw :
          /\ test_data_raw[c] # << >>
          /\ Unavailable(LastFetch(Ticker(c))) =>
                test_data_raw[c] =
                    generate_simulated_data(stream42, Ticker(c), TestRange).close
    /\ pc = "crashed" =>
          \/ train_windows.outcome \in {"ValueError", "IndexError"}
          \/ test_windows.outcome \in {"ValueError", "IndexError"}
          \/ trace[Len(trace)].ev \in {"train: raised", "calculate_metrics: ValueError",
                                       "calculate_metrics: AttributeError"}

\* a finished run in which one fetch threw, another brought no rows, and
\* every company was evaluated
C15_Witness ==
    /\ pc = "done"
    /\ At("print: Error fetching data") # {}
    /\ At("print: No data available") # {}
    /\ Unavailable(FirstFetch)
    /\ DOMAIN results = Labels

\* ---------------------------------------------------------------- C16, C17
\* the arguments of a generator call
GenArgs(call) ==
    <<call.fn, call.symbol, call.start_date, call.end_date, call.n_days, call.base_price>>

BaseOf(call) ==
    IF call.fn = "generate_demo_stock_data" THEN call.base_price
    ELSE base_price(call.symbol)
FloorOf(call) == FMul(Int2Rat(BaseOf(call)), Fl(Rat(8, 10)))

\* C17: no price of a generated series is below base_price * 0.8
C17_PricesAtLeastFloor ==
    \A i \in DOMAIN gen_log :
        \A k \in DOMAIN gen_log[i].frame.close :
            ~RLess(gen_log[i].frame.close[k], FloorOf(gen_log[i]))

\* the walk of call i is at its floor at some step / leaves it again
AtFloor(i) ==
    \E k \in DOMAIN gen_log[i].frame.close :
        k > 1 /\ gen_log[i].frame.close[k] = FloorOf(gen_log[i])
LeavesFloor(i) ==
    \E k \in DOMAIN gen_log[i].frame.close :
        /\ k > 1
        /\ gen_log[i].frame.close[k - 1] = FloorOf(gen_log[i])
        /\ RLess(FloorOf(gen_log[i]), gen_log[i].frame.close[k])

\* both generators were called, the walk of each fell to the floor, and one
\* of them rose above it again
C17_Witness ==
    /\ \E i, j \in DOMAIN gen_log :
          /\ gen_log[i].fn = "_generate_simulated_data" /\ AtFloor(i)
          /\ gen_log[j].fn = "generate_demo_stock_data" /\ AtFloor(j)
    /\ \E i \in DOMAIN gen_log : LeavesFloor(i)

\* ---------------------------------------------------------- C18, C19, C20
Normalized == norm_out.outcome # "none"
\* x is a number of [0, 1]
InUnit(x) == IsFinite(x) /\ ~RLess(x, Int2Rat(0)) /\ ~RLess(Int2Rat(1), x)

\* C18: preprocess_data on a series without elements fails instead of
\* returning a result
C18_EmptySeriesFails ==
    (Normalized /\ norm_out.by = "preprocess_data" /\ norm_in = << >>) =>
        norm_out.outcome # "returned"

C20_NormalizedInUnitInterval ==
    (Normalized /\ norm_in # << >>) =>
        /\ norm_out.outcome = "returned"
        /\ Len(norm_out.scaled) = Len(norm_in)
        /\ \A k \in DOMAIN norm_out.scaled : InUnit(norm_out.scaled[k])
        /\ ~IsConstant(norm_in) =>
              \A k \in DOMAIN norm_in :
                  /\ norm_in[k] = SeqMin(norm_in) => norm_out.scaled[k] = Int2Rat(0)
                  /\ norm_in[k] = SeqMax(norm_in) => norm_out.scaled[k] = Int2Rat(1)

\* --------------------------------------------------------------------- C21
\* the spacing of the floats at the magnitude of q # 0
Ulp(q) == Scaled(1, FlNorm(Abs(q.n), q.d, 0).e)

\* normalized * (max - min) + min with the fit parameters of sc, computed in
\* floating point
InverseTransform(sc, scaled) ==
    [k \in 1..Len(scaled) |->
        FAdd(FMul(scaled[k], FSub(sc.data_max, sc.data_min)), sc.data_min)]

\* the floating-point tolerance of a round trip: four units in the last
\* place of the series' largest value, one for each rounded operation that
\* may err by as much (the two products and the two sums)
WithinTolerance(x, y, largest) ==
    /\ IsFinite(x)
    /\ ~RLess(RMul(Int2Rat(4), Ulp(largest)), RAbs(RSub(x, y)))

train_scaler == scaler

\* C22: once the training series is normalized, the fit object returned for
\* it keeps the training series' minimum and maximum, whatever is normalized
\* afterwards
C22_TrainingFitParametersKept ==
    (pc \notin {"start", "get_training_data", "preprocess_train"}) =>
        /\ train_scaler.fitted
        /\ train_scaler.data_min = SeqMin(train_data.original)
        /\ train_scaler.data_max = SeqMax(train_data.original)

\* --------------------------------------------------------------------- C23
\* forecasts and targets pair up: as many forecasts as targets, each of
\* steps values like its target
SameCounts(forecasts, targets, steps) ==
    /\ Len(forecasts) = Len(targets)
    /\ \A k \in DOMAIN forecasts :
          Len(forecasts[k]) = steps /\ Len(targets[k]) = steps

\* C23: the forecasts predict returned for the windows of a company are one
\* per window, each of the window generator's prediction_steps values, as
\* many as its target has; the same holds for the demo's
\* simple_prediction_model and the targets of create_simple_windows
C23_ForecastsMatchTargets ==
    /\ pc = "metrics" =>
          /\ main_y_pred.kind = "ndarray"
          /\ Len(main_y_pred.v) = Len(test_windows.X)
          /\ SameCounts(main_y_pred.v, test_windows.y, window_generator.prediction_steps)
    /\ demo_pred.outcome = "ok" =>
          /\ Len(demo_pred.predictions) = Len(demo_windows.X) - demo_pred.split_idx
          /\ SameCounts(demo_pred.predictions, demo_pred.y_test, args.prediction_steps)

\* main() predicted two windows of a company with forecasts of two values
C23_Witness ==
    /\ pc = "metrics"
    /\ window_generator.prediction_steps > 1
    /\ Len(main_y_pred.v) > 1

\* the demo predicted its test windows
C23_DemoReached == demo_pred.outcome = "ok" /\ Len(demo_pred.predictions) > 1

\* --------------------------------------------------------------------- C24
\* the fetch at position k of the trace is followed by the line of its
\* failure and the line of the substitution
LoggedFallback(k) ==
    /\ k + 2 <= Len(trace)
    /\ Unavailable(k)
    /\ trace[k + 2] = Ev("print: using simulated data", trace[k].who, {})

\* C24: in a run of main(), data that is not what a fetch returned was
\* substituted after a line about the failed fetch and a line about the
\* substitution; a company without metrics at the end of the run, and a
\* training series too short to window, have a line saying that the data is
\* insufficient
C24_RecoveredErrorsAreLogged ==
    /\ (pc \notin {"start", "get_training_data"} /\ train_data.raw \notin FetchPool) =>
          LoggedFallback(FirstFetch)
    /\ \A c \in DOMAIN test_data_raw :
          test_data_raw[c] \notin FetchPool => LoggedFallback(LastFetch(Ticker(c)))
    /\ pc = "done" =>
          \A c \in Labels \ DOMAIN results :
              /\ AtFor("print: Evaluating", c) # {}
              /\ AtFor("print: Insufficient data", c) # {}
    /\ pc = "returned" =>
          /\ AtFor("print: Insufficient data", Ticker("INFY")) # {}
          /\ At("print: Failed to create windows") # {}

\* a finished run with a substituted series and a skipped company
C24_Witness ==
    /\ pc = "done"
    /\ \E c \in Labels : test_data_raw[c] \notin FetchPool
    /\ \E c \in Labels : c \notin DOMAIN results
    /\ DOMAIN results # {}

\* --------------------------------------------------------------------- C25
\* the index of the last sample a pair starting at i uses: its target ends
\* at i + window_size + prediction_steps - 1
LastSampleOf(i) == i + args.window_size + args.prediction_steps - 1

\* C25: with overlapping windows, every sample of every training pair (window
\* and target) lies before the start of the earliest validation window
C25_NoLookaheadLeakage ==
    (wpc = "split" /\ args.overlap > 0) =>
        \A a \in 1..Len(split.starts_train) : \A b \in 1..Len(split.starts_val) :
            LastSampleOf(split.starts_train[a]) < split.starts_val[b]

\* --------------------------------------------------------------------- C26
\* C26: when main() is about to call train_model, the training subset
\* X_train[:int(0.8 * n)] holds at least one pair, and as many targets
C26_TrainingSubsetNonEmpty ==
    pc = "train" =>
        /\ Len(train_split.X_train) >= 1
        /\ Len(train_split.y_train) = Len(train_split.X_train)

\* --------------------------------------------------------------------- C27
\* the samples of the windows create_sliding_windows returned, without the
\* feature axis its reshape puts around every sample
WindowSamples(ret) == [k \in 1..Len(ret.X) |-> Squeeze(ret.X[k])]

\* C27: on the same series, with the same window_size and prediction_steps,
\* create_simple_windows returns the windows and the targets, sample for
\* sample and in the same order, that create_sliding_windows returns for
\* overlap = window_size - 1; both return no pair for a series shorter than
\* window_size + prediction_steps
C27_DemoWindowsMatchGenerator ==
    (wpc = "windowed" /\ demo_windows.outcome = "ok"
        /\ args.overlap = args.window_size - 1) =>
        /\ win_ret.outcome \in {"ok", "insufficient"}
        /\ demo_windows.X = WindowSamples(win_ret)
        /\ demo_windows.y = win_ret.y
        /\ Len(data) < args.window_size + args.prediction_steps =>
               /\ win_ret.outcome = "insufficient"
               /\ demo_windows.X = << >>
               /\ demo_windows.y = << >>

\* both functions returned three or more pairs of windows of two or more
\* samples
C27_Witness ==
    /\ wpc = "windowed"
    /\ demo_windows.outcome = "ok"
    /\ args.overlap = args.window_size - 1
    /\ args.window_size >= 2
    /\ Len(win_ret.X) >= 3
    /\ Len(demo_windows.X) = Len(win_ret.X)

\* both functions returned no pair for a series one sample too short
C27_ShortReached ==
    /\ wpc = "windowed"
    /\ demo_windows.outcome = "ok"
    /\ Len(data) = args.window_size + args.prediction_steps - 1
    /\ demo_windows.X = << >>

\* --------------------------------------------------------------------- C28
\* the routes that start with the test 'user_id' not in session
ProtectedRoutes ==
    {"dashboard", "appointment", "book_appointment", "medical_records",
     "add_medical_record", "delete_medical_record", "medications", "vital_signs",
     "get_drug_info"}

\* the session holds the id and the name of one row of the users table
SessionOf(sess, database) ==
    \E k \in DOMAIN database.users.rows :
        /\ database.users.rows[k].id = sess.user_id
        /\ database.users.rows[k].username = sess.username

\* the step is the return of a login of browser c whose password check
\* succeeded, and the session holds the user it fetched
LoginSucceeded(c) ==
    /\ response'.route = "login"
    /\ response'.client = c
    /\ response'.password_ok
    /\ response'.db = <<"SELECT users">>
    /\ SessionOf(session'[c], db)

\* what a step does to the session of browser c: user_id is put there, or
\* replaced, by a successful login and removed by a logout
SessionStep(c) ==
    /\ (HasUserId(session'[c]) /\ ~HasUserId(session[c])) => LoginSucceeded(c)
    /\ (HasUserId(session'[c]) /\ HasUserId(session[c])
            /\ session'[c].user_id # session[c].user_id) => LoginSucceeded(c)
    /\ (~HasUserId(session'[c]) /\ HasUserId(session[c])) =>
           response'.route = "logout" /\ response'.client = c

\* a protected route answering a browser without user_id ran no statement,
\* changed no table and no session, and returned the redirect to "/" or 401
DeniedStep ==
    (response'.route \in ProtectedRoutes /\ ~response'.authenticated) =>
        /\ response'.db = << >>
        /\ db' = db
        /\ session' = session
        /\ \/ response'.status = 302 /\ response'.body = "/"
           \/ response'.status = 401

\* C28: a session holds user_id only from a login whose password check
\* succeeded until the next logout; a protected route requested without
\* user_id in the session reads and writes nothing in the database and returns
\* a redirect to "/" or a 401
C28_SessionGuardsProtectedRoutes ==
    [][DeniedStep /\ \A c \in Clients : SessionStep(c)]_vars

\* browser2, not logged in, was refused the deletion of a record while
\* browser1 is logged in
C28_Witness ==
    /\ response.route = "delete_medical_record"
    /\ response.client = "browser2"
    /\ ~response.authenticated
    /\ response.body = "/"
    /\ HasUserId(session["browser1"])
    /\ ~HasUserId(session["browser2"])
    /\ db.medical_records.rows # << >>

\* --------------------------------------------------------------------- C29
\* the rows of medical_records
Records(database) == {database.medical_records.rows[k] :
                         k \in DOMAIN database.medical_records.rows}

\* what a step does to medical_records: a row that disappears is deleted by
\* a request of a session holding the row's user_id; a request answered
\* "Record not found" or "Unauthorized access" leaves the table as it was
DeleteStep ==
    /\ \A r \in Records(db) \ Records(db') :
           /\ response'.route = "delete_medical_record"
           /\ response'.db = <<"SELECT medical_records", "DELETE medical_records",
                               "COMMIT">>
           /\ HasUserId(session[response'.client])
           /\ session[response'.client].user_id = r.user_id
    /\ (response'.route = "delete_medical_record"
            /\ response'.body \in {"/medical-records?error=Record not found",
                                   "/medical-records?error=Unauthorized access"}) =>
           db'.medical_records = db.medical_records

C29_Deleted ==
    /\ response.route = "delete_medical_record"
    /\ response.body = "/medical-records?success=Medical record deleted successfully!"
    /\ Records(db) = {}

\* --------------------------------------------------------------------- C30
\* C30: no two rows of the users table have the same username, and no two
\* the same email
C30_UniqueUsernamesAndEmails ==
    \A i, j \in DOMAIN db.users.rows :
        i # j => /\ db.users.rows[i].username # db.users.rows[j].username
                 /\ db.users.rows[i].email # db.users.rows[j].email

\* the half the UNIQUE index on email enforces
C30_UniqueEmails ==
    \A i, j \in DOMAIN db.users.rows :
        i # j => db.users.rows[i].email # db.users.rows[j].email

====
